---------------------------- MODULE Spec2Model ----------------------------
(***************************************************************************)
(* A model of the RochSolutions AI receptionist: the dialogue state        *)
(* machine of app/flows/triage.py, the slot engine of app/tools/slots.py,  *)
(* the session store of app/storage/redis_store.py and the /twilio/turn    *)
(* route of app/routes/twilio.py.                                          *)
(*                                                                         *)
(* Text is a sequence of one-character strings, so that normalisation,     *)
(* substring tests and digit extraction are computed as the code computes  *)
(* them.  A Python value that may be None is <<>> (None) or <<v>> (v).     *)
(* A Python dict is a function whose DOMAIN is the set of its keys.        *)
(***************************************************************************)
EXTENDS Integers, Sequences, FiniteSets, TLC

\* ------------------------------------------------------------------------
\* Python values
\* ------------------------------------------------------------------------

\* Python None
None == <<>>

\* a value that is not None
Some(v) == <<v>>

\* the value inside Some(v)
The(o) == o[1]

\* dict.get(key, default)
DictGet(d, key, default) == IF key \in DOMAIN d THEN d[key] ELSE default

\* d[key] = value
DictSet(d, key, value) == (key :> value) @@ d

\* d.pop(key, None)
DictPop(d, key) == [k \in (DOMAIN d) \ {key} |-> d[k]] @@ <<>>

\* d.setdefault(key, value), as the dict it leaves behind
DictSetDefault(d, key, value) == IF key \in DOMAIN d THEN d ELSE DictSet(d, key, value)

\* the empty dict {}
EmptyDict == <<>>

\* ------------------------------------------------------------------------
\* Characters and text
\* ------------------------------------------------------------------------

UpperChars == <<"A","B","C","D","E","F","G","H","I","J","K","L","M","N","O","P","Q","R","S","T","U","V","W","X","Y","Z">>

LowerChars == <<"a","b","c","d","e","f","g","h","i","j","k","l","m","n","o","p","q","r","s","t","u","v","w","x","y","z">>

DigitChars == {"0","1","2","3","4","5","6","7","8","9"}

\* the characters Python's str.strip() and the regex class \s treat as space
SpaceChars == {" ", "\t", "\n"}

\* the regex class \w
WordChars == {UpperChars[i] : i \in 1..26} \cup {LowerChars[i] : i \in 1..26} \cup DigitChars \cup {"_"}

\* the lower-case letter of each upper-case letter
LowerOf == [c \in {UpperChars[i] : i \in 1..26} |->
               LowerChars[CHOOSE i \in 1..26 : UpperChars[i] = c]]

\* str.lower() on one character
LowerChar(c) == IF c \in DOMAIN LowerOf THEN LowerOf[c] ELSE c

\* str.lower()
Lower(t) == [i \in 1..Len(t) |-> LowerChar(t[i])] \o <<>>

\* str.strip()
Strip(t) ==
    LET n == Len(t)
        lead(i) == \A j \in 1..i : t[j] \in SpaceChars
        trail(i) == \A j \in i..n : t[j] \in SpaceChars
    IN  IF lead(n) THEN <<>>
        ELSE LET lo == CHOOSE i \in 1..n : t[i] \notin SpaceChars /\ lead(i - 1)
                 hi == CHOOSE i \in 1..n : t[i] \notin SpaceChars /\ trail(i + 1)
             IN  SubSeq(t, lo, hi)

\* re.sub(r"\s+", " ", t): every run of space characters becomes one blank
CollapseSpaces(t) ==
    LET first(i) == t[i] \notin SpaceChars \/ i = 1 \/ t[i - 1] \notin SpaceChars
        kept == SelectSeq([i \in 1..Len(t) |-> i], first)
    IN  [j \in 1..Len(kept) |-> IF t[kept[j]] \in SpaceChars THEN " " ELSE t[kept[j]]] \o <<>>

\* k in t, for strings
Contains(t, k) == \E i \in 1..(Len(t) - Len(k) + 1) : SubSeq(t, i, i + Len(k) - 1) = k

_norm(t) == CollapseSpaces(Strip(Lower(t)))

_contains_any(t, keywords) == \E i \in 1..Len(keywords) : Contains(t, keywords[i])

_digits_only(s) == SelectSeq(s, LAMBDA c : c \in DigitChars)

normalize_phone(phone) == _digits_only(phone)

\* a lower bound of 9 digits instead of 10
is_valid_phone_from_9(phone) ==
    LET p == normalize_phone(phone)
    IN  9 <= Len(p) /\ Len(p) <= 15

is_valid_phone(phone) ==
    LET p == normalize_phone(phone)
    IN  10 <= Len(p) /\ Len(p) <= 15

\* ------------------------------------------------------------------------
\* Intent classification
\* ------------------------------------------------------------------------

\* book, booking, appointment, schedule, available, slot, availability
KW_BOOK ==
    <<
      <<"b","o","o","k">>,
      <<"b","o","o","k","i","n","g">>,
      <<"a","p","p","o","i","n","t","m","e","n","t">>,
      <<"s","c","h","e","d","u","l","e">>,
      <<"a","v","a","i","l","a","b","l","e">>,
      <<"s","l","o","t">>,
      <<"a","v","a","i","l","a","b","i","l","i","t","y">> >>

\* reschedule, change, move, cancel, cancellation, rebook, postpone
KW_RESCHEDULE ==
    <<
      <<"r","e","s","c","h","e","d","u","l","e">>,
      <<"c","h","a","n","g","e">>,
      <<"m","o","v","e">>,
      <<"c","a","n","c","e","l">>,
      <<"c","a","n","c","e","l","l","a","t","i","o","n">>,
      <<"r","e","b","o","o","k">>,
      <<"p","o","s","t","p","o","n","e">> >>

\* price, cost, fee, how much, charge, rates, pricing, payment, pay
KW_FAQ_PRICES ==
    <<
      <<"p","r","i","c","e">>,
      <<"c","o","s","t">>,
      <<"f","e","e">>,
      <<"h","o","w"," ","m","u","c","h">>,
      <<"c","h","a","r","g","e">>,
      <<"r","a","t","e","s">>,
      <<"p","r","i","c","i","n","g">>,
      <<"p","a","y","m","e","n","t">>,
      <<"p","a","y">> >>

\* hours, open, close, opening, when are you open, weekend, saturday, sunday
KW_FAQ_HOURS ==
    <<
      <<"h","o","u","r","s">>,
      <<"o","p","e","n">>,
      <<"c","l","o","s","e">>,
      <<"o","p","e","n","i","n","g">>,
      <<"w","h","e","n"," ","a","r","e"," ","y","o","u"," ","o","p","e","n">>,
      <<"w","e","e","k","e","n","d">>,
      <<"s","a","t","u","r","d","a","y">>,
      <<"s","u","n","d","a","y">> >>

\* address, location, where are you, parking, postcode, directions, near, map
KW_FAQ_LOCATION ==
    <<
      <<"a","d","d","r","e","s","s">>,
      <<"l","o","c","a","t","i","o","n">>,
      <<"w","h","e","r","e"," ","a","r","e"," ","y","o","u">>,
      <<"p","a","r","k","i","n","g">>,
      <<"p","o","s","t","c","o","d","e">>,
      <<"d","i","r","e","c","t","i","o","n","s">>,
      <<"n","e","a","r">>,
      <<"m","a","p">> >>

\* insurance, insured, bupa, axa, vitality, aviva, wpa, cigna, claim, receipt
KW_FAQ_INSURANCE ==
    <<
      <<"i","n","s","u","r","a","n","c","e">>,
      <<"i","n","s","u","r","e","d">>,
      <<"b","u","p","a">>,
      <<"a","x","a">>,
      <<"v","i","t","a","l","i","t","y">>,
      <<"a","v","i","v","a">>,
      <<"w","p","a">>,
      <<"c","i","g","n","a">>,
      <<"c","l","a","i","m">>,
      <<"r","e","c","e","i","p","t">> >>

\* physio, physiotherapy, chiro, chiropractor, massage, sports therapy, rehab, pain, injury
KW_FAQ_SERVICES ==
    <<
      <<"p","h","y","s","i","o">>,
      <<"p","h","y","s","i","o","t","h","e","r","a","p","y">>,
      <<"c","h","i","r","o">>,
      <<"c","h","i","r","o","p","r","a","c","t","o","r">>,
      <<"m","a","s","s","a","g","e">>,
      <<"s","p","o","r","t","s"," ","t","h","e","r","a","p","y">>,
      <<"r","e","h","a","b">>,
      <<"p","a","i","n">>,
      <<"i","n","j","u","r","y">> >>

\* back pain, neck, shoulder, knee, ankle, hip, sciatica, sprain, strain, tendon, post op, surgery
KW_FAQ_CONDITIONS ==
    <<
      <<"b","a","c","k"," ","p","a","i","n">>,
      <<"n","e","c","k">>,
      <<"s","h","o","u","l","d","e","r">>,
      <<"k","n","e","e">>,
      <<"a","n","k","l","e">>,
      <<"h","i","p">>,
      <<"s","c","i","a","t","i","c","a">>,
      <<"s","p","r","a","i","n">>,
      <<"s","t","r","a","i","n">>,
      <<"t","e","n","d","o","n">>,
      <<"p","o","s","t"," ","o","p">>,
      <<"s","u","r","g","e","r","y">> >>

\* referral, gp, doctor, nhs, letter, prescription
KW_FAQ_REFERRAL ==
    <<
      <<"r","e","f","e","r","r","a","l">>,
      <<"g","p">>,
      <<"d","o","c","t","o","r">>,
      <<"n","h","s">>,
      <<"l","e","t","t","e","r">>,
      <<"p","r","e","s","c","r","i","p","t","i","o","n">> >>

\* what should i bring, bring, what do i wear, clothes, arrive, late, parking
KW_FAQ_FIRST_VISIT ==
    <<
      <<"w","h","a","t"," ","s","h","o","u","l","d"," ","i"," ","b","r","i","n","g">>,
      <<"b","r","i","n","g">>,
      <<"w","h","a","t"," ","d","o"," ","i"," ","w","e","a","r">>,
      <<"c","l","o","t","h","e","s">>,
      <<"a","r","r","i","v","e">>,
      <<"l","a","t","e">>,
      <<"p","a","r","k","i","n","g">> >>

\* cancel policy, cancellation policy, late fee, refund, missed appointment
KW_FAQ_POLICIES ==
    <<
      <<"c","a","n","c","e","l"," ","p","o","l","i","c","y">>,
      <<"c","a","n","c","e","l","l","a","t","i","o","n"," ","p","o","l","i","c","y">>,
      <<"l","a","t","e"," ","f","e","e">>,
      <<"r","e","f","u","n","d">>,
      <<"m","i","s","s","e","d"," ","a","p","p","o","i","n","t","m","e","n","t">> >>

\* privacy, data, gdpr, recording, confidential
KW_FAQ_PRIVACY ==
    <<
      <<"p","r","i","v","a","c","y">>,
      <<"d","a","t","a">>,
      <<"g","d","p","r">>,
      <<"r","e","c","o","r","d","i","n","g">>,
      <<"c","o","n","f","i","d","e","n","t","i","a","l">> >>

\* human, person, receptionist, someone, call me back, speak to
KW_HUMAN ==
    <<
      <<"h","u","m","a","n">>,
      <<"p","e","r","s","o","n">>,
      <<"r","e","c","e","p","t","i","o","n","i","s","t">>,
      <<"s","o","m","e","o","n","e">>,
      <<"c","a","l","l"," ","m","e"," ","b","a","c","k">>,
      <<"s","p","e","a","k"," ","t","o">> >>

S_empty == <<>>

\* the FAQ_PRICES test moved in front of the BOOK test
detect_intent_prices_first(text) ==
    LET t == _norm(text)
    IN  IF t = S_empty THEN "UNKNOWN"
        ELSE IF _contains_any(t, KW_FAQ_PRICES) THEN "FAQ_PRICES"
        ELSE IF _contains_any(t, KW_BOOK) THEN "BOOK"
        ELSE IF _contains_any(t, KW_RESCHEDULE) THEN "RESCHEDULE"
        ELSE IF _contains_any(t, KW_FAQ_HOURS) THEN "FAQ_HOURS"
        ELSE IF _contains_any(t, KW_FAQ_LOCATION) THEN "FAQ_LOCATION"
        ELSE IF _contains_any(t, KW_FAQ_INSURANCE) THEN "FAQ_INSURANCE"
        ELSE IF _contains_any(t, KW_FAQ_SERVICES) THEN "FAQ_SERVICES"
        ELSE IF _contains_any(t, KW_FAQ_CONDITIONS) THEN "FAQ_CONDITIONS"
        ELSE IF _contains_any(t, KW_FAQ_REFERRAL) THEN "FAQ_REFERRAL"
        ELSE IF _contains_any(t, KW_FAQ_FIRST_VISIT) THEN "FAQ_FIRST_VISIT"
        ELSE IF _contains_any(t, KW_FAQ_POLICIES) THEN "FAQ_POLICIES"
        ELSE IF _contains_any(t, KW_FAQ_PRIVACY) THEN "FAQ_PRIVACY"
        ELSE IF _contains_any(t, KW_HUMAN) THEN "HUMAN"
        ELSE "OTHER"

detect_intent(text) ==
    LET t == _norm(text)
    IN  IF t = S_empty THEN "UNKNOWN"
        ELSE IF _contains_any(t, KW_BOOK) THEN "BOOK"
        ELSE IF _contains_any(t, KW_RESCHEDULE) THEN "RESCHEDULE"
        ELSE IF _contains_any(t, KW_FAQ_PRICES) THEN "FAQ_PRICES"
        ELSE IF _contains_any(t, KW_FAQ_HOURS) THEN "FAQ_HOURS"
        ELSE IF _contains_any(t, KW_FAQ_LOCATION) THEN "FAQ_LOCATION"
        ELSE IF _contains_any(t, KW_FAQ_INSURANCE) THEN "FAQ_INSURANCE"
        ELSE IF _contains_any(t, KW_FAQ_SERVICES) THEN "FAQ_SERVICES"
        ELSE IF _contains_any(t, KW_FAQ_CONDITIONS) THEN "FAQ_CONDITIONS"
        ELSE IF _contains_any(t, KW_FAQ_REFERRAL) THEN "FAQ_REFERRAL"
        ELSE IF _contains_any(t, KW_FAQ_FIRST_VISIT) THEN "FAQ_FIRST_VISIT"
        ELSE IF _contains_any(t, KW_FAQ_POLICIES) THEN "FAQ_POLICIES"
        ELSE IF _contains_any(t, KW_FAQ_PRIVACY) THEN "FAQ_PRIVACY"
        ELSE IF _contains_any(t, KW_HUMAN) THEN "HUMAN"
        ELSE "OTHER"

\* ------------------------------------------------------------------------
\* Time.  A datetime is a number of seconds since 00:00:00 of a Monday, in
\* the one zone Europe/London (no change of offset inside the window).
\* ------------------------------------------------------------------------

SecondsPerMinute == 60 * 1

SecondsPerHour == 60 * 60

SecondsPerDay == 24 * 60 * 60

\* datetime.weekday(): 0 = Monday ... 6 = Sunday
weekday(t) == (t \div SecondsPerDay) % 7

\* datetime.replace(hour=h, minute=0, second=0, microsecond=0)
replace_hour(t, h) == (t \div SecondsPerDay) * SecondsPerDay + h * SecondsPerHour

\* datetime.isoformat(): the date and time fields of the ISO text
isoformat(t) ==
    [date   |-> t \div SecondsPerDay,
     hour   |-> (t % SecondsPerDay) \div SecondsPerHour,
     minute |-> (t % SecondsPerHour) \div SecondsPerMinute,
     second |-> t % SecondsPerMinute]

\* datetime.fromisoformat()
fromisoformat(iso) ==
    iso.date * SecondsPerDay + iso.hour * SecondsPerHour
        + iso.minute * SecondsPerMinute + iso.second

\* ------------------------------------------------------------------------
\* Slot engine (app/tools/slots.py)
\* ------------------------------------------------------------------------

Max(a, b) == IF a >= b THEN a ELSE b

Min(a, b) == IF a <= b THEN a ELSE b

\* an overlap test on closed intervals: touching edges overlap
overlaps_closed(a_start, a_end, b_start, b_end) == Max(a_start, b_start) <= Min(a_end, b_end)

\* an overlap test that only looks whether the first interval starts inside the second
overlaps_start_inside(a_start, a_end, b_start, b_end) == b_start <= a_start /\ a_start < b_end

overlaps(a_start, a_end, b_start, b_end) == Max(a_start, b_start) < Min(a_end, b_end)

\* busy blocks of the calendar's free/busy answer, as (start, end) pairs;
\* a block without start or end is skipped
parse_busy(busy) ==
    LET ok(b) == "start" \in DOMAIN b /\ "end" \in DOMAIN b
        kept == SelectSeq(busy, ok)
    IN  [i \in 1..Len(kept) |-> <<fromisoformat(kept[i].start), fromisoformat(kept[i].end)>>] \o <<>>

next_7_days_window(now) == <<now, now + 7 * SecondsPerDay>>

\* slot generation without the test that skips weekends
generate_candidate_slots_any_day(window_start, window_end, duration_min, day_start_h, day_end_h) ==
    LET step == duration_min * SecondsPerMinute
        floored == window_start - (window_start % SecondsPerMinute)
        minute_mod == ((floored \div SecondsPerMinute) % 60) % duration_min
        first == IF minute_mod # 0
                 THEN floored + (duration_min - minute_mod) * SecondsPerMinute
                 ELSE floored
        rounds == IF first < window_end THEN ((window_end - 1 - first) \div step) + 1 ELSE 0
        cursors == [k \in 1..rounds |-> first + (k - 1) * step] \o <<>>
        keep(cursor) ==
            /\ cursor >= replace_hour(cursor, day_start_h)
            /\ cursor + step <= replace_hour(cursor, day_end_h)
            /\ cursor + step <= window_end
        kept == SelectSeq(cursors, keep)
    IN  [i \in 1..Len(kept) |-> <<kept[i], kept[i] + step>>] \o <<>>

generate_candidate_slots(window_start, window_end, duration_min, day_start_h, day_end_h) ==
    LET step == duration_min * SecondsPerMinute
        floored == window_start - (window_start % SecondsPerMinute)
        minute_mod == ((floored \div SecondsPerMinute) % 60) % duration_min
        first == IF minute_mod # 0
                 THEN floored + (duration_min - minute_mod) * SecondsPerMinute
                 ELSE floored
        \* the values the cursor takes while cursor < window_end
        rounds == IF first < window_end THEN ((window_end - 1 - first) \div step) + 1 ELSE 0
        cursors == [k \in 1..rounds |-> first + (k - 1) * step] \o <<>>
        keep(cursor) ==
            /\ weekday(cursor) < 5
            /\ cursor >= replace_hour(cursor, day_start_h)
            /\ cursor + step <= replace_hour(cursor, day_end_h)
            /\ cursor + step <= window_end
        kept == SelectSeq(cursors, keep)
    IN  [i \in 1..Len(kept) |-> <<kept[i], kept[i] + step>>] \o <<>>

filter_free_slots(candidates, busy_blocks) ==
    LET free(slot) ==
            ~ \E i \in 1..Len(busy_blocks) :
                overlaps(slot[1], slot[2], busy_blocks[i][1], busy_blocks[i][2])
    IN  SelectSeq(candidates, free)

\* strftime("%a %d %b at %H:%M") of the slot's start: weekday, day, hour, minute
format_slot(slot) ==
    LET iso == isoformat(slot[1])
    IN  <<weekday(slot[1]), iso.date, iso.hour, iso.minute>>

\* the last n slots instead of the first
pick_last_n(slots, n) == SubSeq(slots, Max(1, Len(slots) - n + 1), Len(slots))

\* one slot more than asked for
pick_first_n_and_one(slots, n) == SubSeq(slots, 1, Min(n + 1, Len(slots)))

pick_first_n(slots, n) == SubSeq(slots, 1, Min(n, Len(slots)))

\* ------------------------------------------------------------------------
\* Clinic registry (app/clinic_config.py)
\* ------------------------------------------------------------------------

CLINICS ==
    [demo |->
        [display_name  |-> <<"R","o","c","h","S","o","l","u","t","i","o","n","s"," ","C","l","i","n","i","c"," ","(","D","e","m","o",")">>,
         timezone      |-> "Europe/London",
         calendar_id   |-> "primary",
         slot_minutes  |-> 30,
         days_ahead    |-> 7,
         working_hours |-> [mon |-> Some(<<9, 18>>), tue |-> Some(<<9, 18>>),
                            wed |-> Some(<<9, 18>>), thu |-> Some(<<9, 18>>),
                            fri |-> Some(<<9, 18>>), sat |-> None, sun |-> None]]]

\* ------------------------------------------------------------------------
\* Helpers of app/flows/triage.py
\* ------------------------------------------------------------------------

DEFAULT_DURATION_MIN == 30

get_clinic(session) ==
    LET key == DictGet(session, "active_clinic", "demo")
    IN  IF key \in DOMAIN CLINICS THEN CLINICS[key] ELSE CLINICS["demo"]

clinic_default_hours(clinic) ==
    LET wh  == DictGet(clinic, "working_hours", EmptyDict)
        mon == DictGet(wh, "mon", None)
    IN  IF mon # None /\ Len(The(mon)) = 2 THEN The(mon) ELSE <<9, 18>>

S_morning == <<"m","o","r","n","i","n","g">>

S_afternoon == <<"a","f","t","e","r","n","o","o","n">>

S_evening == <<"e","v","e","n","i","n","g">>

S_after_work == <<"a","f","t","e","r"," ","w","o","r","k">>

S_afterwork == <<"a","f","t","e","r","w","o","r","k">>

\* (start hour, end hour) of the time of day named in pref, or None
preference_window(pref) ==
    LET p == _norm(pref)
    IN  IF Contains(p, S_morning) THEN Some(<<9, 12>>)
        ELSE IF Contains(p, S_afternoon) THEN Some(<<12, 17>>)
        ELSE IF Contains(p, S_evening) \/ Contains(p, S_after_work) \/ Contains(p, S_afterwork)
             THEN Some(<<17, 20>>)
        ELSE None

TRIAGE == "TRIAGE"

BOOK_PATIENT_TYPE == "BOOK_PATIENT_TYPE"

BOOK_NAME == "BOOK_NAME"

BOOK_PHONE == "BOOK_PHONE"

BOOK_REASON == "BOOK_REASON"

BOOK_TIME_PREF == "BOOK_TIME_PREF"

BOOK_OFFER_SLOTS == "BOOK_OFFER_SLOTS"

BOOK_PICK_SLOT == "BOOK_PICK_SLOT"

BOOK_CONFIRM_SLOT == "BOOK_CONFIRM_SLOT"

RESCH_CHOICE == "RESCH_CHOICE"

RESCH_NAME == "RESCH_NAME"

RESCH_PHONE == "RESCH_PHONE"

RESCH_FIND == "RESCH_FIND"

RESCH_OFFER_SLOTS == "RESCH_OFFER_SLOTS"

RESCH_PICK_SLOT == "RESCH_PICK_SLOT"

RESCH_CONFIRM == "RESCH_CONFIRM"

CANCEL_CONFIRM == "CANCEL_CONFIRM"

\* ------------------------------------------------------------------------
\* The Google Calendar client (app/tools/calendar_google.py).  One turn
\* makes at most one request; env.api is how that request ends: "ok",
\* "no_id" (an answer without an event id) or "error" (the client raises).
\* env.busy and env.events are what the calendar holds when it is asked.
\* ------------------------------------------------------------------------

\* the request freebusy sends
freebusy_request(time_min, time_max, calendar_id) ==
    [op |-> "freebusy", calendar_id |-> calendar_id,
     start |-> isoformat(time_min), end |-> isoformat(time_max)]

\* the request list_upcoming_events sends
list_upcoming_events_request(days_ahead, max_results, calendar_id) ==
    [op |-> "list_upcoming_events", calendar_id |-> calendar_id,
     days_ahead |-> days_ahead, max_results |-> max_results]

\* the busy blocks between time_min and time_max
freebusy(env, time_min, time_max, calendar_id) ==
    SelectSeq(env.busy, LAMBDA b :
        ~ ("start" \in DOMAIN b /\ "end" \in DOMAIN b)
        \/ overlaps(fromisoformat(b.start), fromisoformat(b.end), time_min, time_max))

\* the request create_event sends
create_event(start_dt, end_dt, summary, description, calendar_id) ==
    [op |-> "create_event", calendar_id |-> calendar_id,
     start |-> isoformat(start_dt), end |-> isoformat(end_dt),
     summary |-> summary, description |-> description]

\* the request patch_event_time sends
patch_event_time(event_id, start_dt, end_dt, calendar_id) ==
    [op |-> "patch_event_time", calendar_id |-> calendar_id, event_id |-> event_id,
     start |-> isoformat(start_dt), end |-> isoformat(end_dt)]

\* the request delete_event sends
delete_event(event_id, calendar_id) ==
    [op |-> "delete_event", calendar_id |-> calendar_id, event_id |-> event_id]

\* the events of the next days_ahead days, at most max_results of them
list_upcoming_events(env, days_ahead, max_results, calendar_id) ==
    SubSeq(env.events, 1, Min(max_results, Len(env.events)))

\* ------------------------------------------------------------------------
\* Slot suggestion and appointment lookup
\* ------------------------------------------------------------------------

\* a turn that does not look at the credential
has_tokens_unchecked(env) == TRUE

\* tokens = await redis_get_json(TOKENS_KEY); "if not tokens" is ~ has_tokens
has_tokens(env) == env.tokens # None

OFFLINE == "The clinic calendar is currently offline. Please try again shortly."

NO_SLOTS == "I couldn't find any free slots in the next 7 days. Would you like me to take your details for a call-back?"

\* the first three free slots of the window between the hours given
top3_between(w, duration, hours, busy_blocks) ==
    pick_first_n(filter_free_slots(
                     generate_candidate_slots(w[1], w[2], duration, hours[1], hours[2]),
                     busy_blocks), 3)

\* "if not top3 and win": the slots are generated and filtered a second time
second_pass(top3, win) == top3 = <<>> /\ win # None

\* no fallback: the slots of the first pass, found or not
top3_no_fallback(top3, win, fallback) == top3

\* the fallback to the clinic's default hours
top3_or_fallback(top3, win, fallback) == IF second_pass(top3, win) THEN fallback ELSE top3

\* what suggest_top_slots returns for the three slots found: raw_slots,
\* labels and err; raised when the free/busy request fails; calls is the
\* request it sent, if any; passes counts the runs of slot generation
suggested(env, asked, top3, passes) ==
    IF ~ has_tokens(env)
    THEN [raised |-> FALSE, calls |-> <<>>, passes |-> 0,
          raw_slots |-> <<>>, labels |-> <<>>, err |-> Some(OFFLINE)]
    ELSE IF env.api = "error"
    THEN [raised |-> TRUE, calls |-> asked, passes |-> 1,
          raw_slots |-> <<>>, labels |-> <<>>, err |-> None]
    ELSE IF top3 = <<>>
    THEN [raised |-> FALSE, calls |-> asked, passes |-> passes,
          raw_slots |-> <<>>, labels |-> <<>>, err |-> Some(NO_SLOTS)]
    ELSE [raised |-> FALSE, calls |-> asked, passes |-> passes,
          raw_slots |-> [i \in 1..Len(top3) |->
                            [start |-> isoformat(top3[i][1]), end |-> isoformat(top3[i][2])]]
                        \o <<>>,
          labels |-> [i \in 1..Len(top3) |-> format_slot(top3[i])] \o <<>>,
          err |-> None]

\* the suggestion made from the first pass and, when it runs, the second
two_passes(env, asked, first, win, fallback) ==
    suggested(env, asked, top3_or_fallback(first, win, fallback),
              IF second_pass(first, win) THEN 2 ELSE 1)

suggest_top_slots(session, duration_min, pref_text, env) ==
    LET clinic == get_clinic(session)
        slot_minutes == DictGet(clinic, "slot_minutes", DEFAULT_DURATION_MIN)
        duration == IF duration_min # 0 THEN duration_min ELSE slot_minutes
        w == next_7_days_window(env.now)
        win == preference_window(pref_text)
        hours == IF win # None THEN The(win) ELSE clinic_default_hours(clinic)
        calendar_id == DictGet(clinic, "calendar_id", "primary")
        busy_blocks == parse_busy(freebusy(env, w[1], w[2], calendar_id))
    IN  two_passes(env, <<freebusy_request(w[1], w[2], calendar_id)>>,
                   top3_between(w, duration, hours, busy_blocks), win,
                   top3_between(w, duration, clinic_default_hours(clinic), busy_blocks))

\* a lookup that takes the last matching event instead of the first
find_event_last_match(session, phone, env) ==
    LET clinic == get_clinic(session)
        target == normalize_phone(phone)
        calendar_id == DictGet(clinic, "calendar_id", "primary")
        asked == <<list_upcoming_events_request(30, 25, calendar_id)>>
        events == list_upcoming_events(env, 30, 25, calendar_id)
        match(ev) == Contains(_digits_only(DictGet(ev, "description", <<>>)), target)
        hits == SelectSeq(events, match)
    IN  IF ~ has_tokens(env) THEN [raised |-> FALSE, calls |-> <<>>, found |-> None]
        ELSE IF target = <<>> THEN [raised |-> FALSE, calls |-> <<>>, found |-> None]
        ELSE IF env.api = "error" THEN [raised |-> TRUE, calls |-> asked, found |-> None]
        ELSE IF hits = <<>> THEN [raised |-> FALSE, calls |-> asked, found |-> None]
        ELSE [raised |-> FALSE, calls |-> asked, found |-> Some(hits[Len(hits)])]

\* a lookup that takes the first upcoming event, whatever its description
find_event_any_description(session, phone, env) ==
    LET clinic == get_clinic(session)
        target == normalize_phone(phone)
        calendar_id == DictGet(clinic, "calendar_id", "primary")
        asked == <<list_upcoming_events_request(30, 25, calendar_id)>>
        events == list_upcoming_events(env, 30, 25, calendar_id)
    IN  IF ~ has_tokens(env) THEN [raised |-> FALSE, calls |-> <<>>, found |-> None]
        ELSE IF target = <<>> THEN [raised |-> FALSE, calls |-> <<>>, found |-> None]
        ELSE IF env.api = "error" THEN [raised |-> TRUE, calls |-> asked, found |-> None]
        ELSE IF events = <<>> THEN [raised |-> FALSE, calls |-> asked, found |-> None]
        ELSE [raised |-> FALSE, calls |-> asked, found |-> Some(events[1])]

\* the first upcoming event whose description holds the phone's digits:
\* found is None or the event; raised when the listing request fails
find_event_for_patient(session, phone, env) ==
    LET clinic == get_clinic(session)
        target == normalize_phone(phone)
        calendar_id == DictGet(clinic, "calendar_id", "primary")
        asked == <<list_upcoming_events_request(30, 25, calendar_id)>>
        events == list_upcoming_events(env, 30, 25, calendar_id)
        match(ev) == Contains(_digits_only(DictGet(ev, "description", <<>>)), target)
        hits == SelectSeq(events, match)
    IN  IF ~ has_tokens(env) THEN [raised |-> FALSE, calls |-> <<>>, found |-> None]
        ELSE IF target = <<>> THEN [raised |-> FALSE, calls |-> <<>>, found |-> None]
        ELSE IF env.api = "error" THEN [raised |-> TRUE, calls |-> asked, found |-> None]
        ELSE IF hits = <<>> THEN [raised |-> FALSE, calls |-> asked, found |-> None]
        ELSE [raised |-> FALSE, calls |-> asked, found |-> Some(hits[1])]

\* ------------------------------------------------------------------------
\* The dialogue state machine (triage_turn)
\* ------------------------------------------------------------------------

LAST_OFFERED_SLOTS_KEY == "last_offered_slots"

SELECTED_SLOT_KEY == "selected_slot"

\* ("restart", "start over", "reset")
RESTART_WORDS == {<<"r","e","s","t","a","r","t">>, <<"s","t","a","r","t"," ","o","v","e","r">>, <<"r","e","s","e","t">>}

\* a repeat helper that knows "repeat" only
REPEAT_WORDS_only_repeat == {<<"r","e","p","e","a","t">>}

\* ("repeat", "say again")
REPEAT_WORDS == {<<"r","e","p","e","a","t">>, <<"s","a","y"," ","a","g","a","i","n">>}

\* an affirmative set that takes "no" for a yes
YES_WORDS_and_no == {<<"y","e","s">>, <<"y">>, <<"y","e","a","h">>, <<"c","o","n","f","i","r","m">>, <<"o","k">>, <<"n","o">>}

\* ("yes", "y", "yeah", "confirm", "ok")
\* an affirmative set that has lost "ok"
YES_WORDS_without_ok == {<<"y","e","s">>, <<"y">>, <<"y","e","a","h">>, <<"c","o","n","f","i","r","m">>}

YES_WORDS == {<<"y","e","s">>, <<"y">>, <<"y","e","a","h">>, <<"c","o","n","f","i","r","m">>, <<"o","k">>}

S_cancel == <<"c","a","n","c","e","l">>

S_Patient == <<"P","a","t","i","e","n","t">>

S_Appointment == <<"A","p","p","o","i","n","t","m","e","n","t">>

\* what a turn hands back: the reply and the session, or an exception,
\* and the calendar requests it sent
OutCalls(reply, session, calls) ==
    [raised |-> FALSE, reply |-> reply, session |-> session, calls |-> calls]

Out(reply, session) == OutCalls(reply, session, <<>>)

OutCall(reply, session, call) == OutCalls(reply, session, <<call>>)

Exc(session, calls) == [raised |-> TRUE, reply |-> "", session |-> session, calls |-> calls]

\* session["collected"][field] = value (collected is the dict inside the session)
Collect(session, field, value) ==
    DictSet(session, "collected", DictSet(session["collected"], field, value))

\* session["state"] = state
Goto(session, state) == DictSet(session, "state", state)

\* re.search(r"(1|2|3)", t): the word boundaries are lost
search_123_unbounded(t) ==
    LET hits == {i \in 1..Len(t) : t[i] \in {"1", "2", "3"}}
        at == CHOOSE i \in hits : \A j \in hits : i <= j
    IN  IF hits = {} THEN None
        ELSE Some(IF t[at] = "1" THEN 1 ELSE IF t[at] = "2" THEN 2 ELSE 3)

\* re.search(r"\b(1|2|3)\b", t): the digit of the first match, or None
search_123(t) ==
    LET hit(i) == /\ t[i] \in {"1", "2", "3"}
                  /\ (i = 1 \/ t[i - 1] \notin WordChars)
                  /\ (i = Len(t) \/ t[i + 1] \notin WordChars)
        hits == {i \in 1..Len(t) : hit(i)}
        at == CHOOSE i \in hits : \A j \in hits : i <= j
    IN  IF hits = {} THEN None
        ELSE Some(IF t[at] = "1" THEN 1 ELSE IF t[at] = "2" THEN 2 ELSE 3)

\* a clearing that forgets session["collected"] = {}
clear_flow_keeps_collected(session) ==
    DictSet(DictSet(session, LAST_OFFERED_SLOTS_KEY, None), SELECTED_SLOT_KEY, None)

\* the fields the flows clear: collected, offered slots, selected slot
clear_flow(session) ==
    DictSet(DictSet(DictSet(session, "collected", EmptyDict),
                    LAST_OFFERED_SLOTS_KEY, None), SELECTED_SLOT_KEY, None)

\* a session.pop that removes nothing
pop_resch_keeps_id(session) == session

\* session.pop("resch_event_id", None); session.pop("resch_event_summary", None)
pop_resch(session) == DictPop(DictPop(session, "resch_event_id"), "resch_event_summary")

\* a restart that forgets the two session.pop calls
global_restart_keeps_event(session) ==
    Out("Okay - starting over. What would you like to do?", clear_flow(Goto(session, TRIAGE)))

global_restart(session) ==
    Out("Okay - starting over. What would you like to do?",
        pop_resch(clear_flow(Goto(session, TRIAGE))))

resch_choice(user_said, session) ==
    IF Contains(_norm(user_said), S_cancel)
    THEN Out("Okay - to cancel, I just need to confirm who you are. What's your full name?",
             Goto(Collect(session, "resch_action", "CANCEL"), RESCH_NAME))
    ELSE Out("Okay - to reschedule, I just need to confirm who you are. What's your full name?",
             Goto(Collect(session, "resch_action", "RESCHEDULE"), RESCH_NAME))

resch_name(user_said, session) ==
    Out("Thanks. What's the phone number used for the booking?",
        Goto(Collect(session, "name", Strip(user_said)), RESCH_PHONE))

resch_phone(user_said, session) ==
    LET phone_raw == Strip(user_said)
    IN  IF ~ is_valid_phone(phone_raw)
        THEN Out("Sorry - I didn't catch a valid phone number. Please say the phone number again.",
                 session)
        ELSE Out("Okay - one moment while I look up your appointment.",
                 Goto(Collect(session, "phone", normalize_phone(phone_raw)), RESCH_FIND))

resch_find(session, env) ==
    LET collected == session["collected"]
        look == find_event_for_patient(session, DictGet(collected, "phone", <<>>), env)
        ev == The(look.found)
        summary == DictGet(ev, "summary", S_Appointment)
        found == DictSet(DictSet(session, "resch_event_id", DictGet(ev, "id", None)),
                         "resch_event_summary", summary)
    IN  IF ~ has_tokens(env) THEN Out(OFFLINE, Goto(session, TRIAGE))
        ELSE IF look.raised THEN Exc(session, look.calls)
        ELSE IF look.found = None
        THEN OutCalls("I couldn't find a matching appointment in the next 30 days. For the demo, please book first and then try reschedule.",
                      Goto(session, TRIAGE), look.calls)
        ELSE IF DictGet(collected, "resch_action", "") = "CANCEL"
        THEN OutCalls("I found your appointment: {summary}. Do you want to cancel it? Say yes or no.",
                      Goto(found, CANCEL_CONFIRM), look.calls)
        ELSE OutCalls("I found your appointment. Let me check new availability.",
                      Goto(found, RESCH_OFFER_SLOTS), look.calls)

\* an offer that empties collected when it gives up
offer_clearing(session, got, pick_state) ==
    LET offered == Goto(DictSet(session, LAST_OFFERED_SLOTS_KEY, Some(got.raw_slots)), pick_state)
    IN  IF got.raised THEN Exc(session, got.calls)
        ELSE IF got.err # None
        THEN OutCalls(The(got.err), DictSet(Goto(session, TRIAGE), "collected", EmptyDict), got.calls)
        ELSE IF Len(got.labels) < 3 THEN Exc(offered, got.calls)
        ELSE OutCalls("I can do: 1) {labels[0]}, 2) {labels[1]}, 3) {labels[2]}. Say 1, 2, or 3.",
                      offered, got.calls)

\* the offer of the three slots got; labels[0], labels[1], labels[2] must exist
offer(session, got, pick_state) ==
    LET offered == Goto(DictSet(session, LAST_OFFERED_SLOTS_KEY, Some(got.raw_slots)), pick_state)
    IN  IF got.raised THEN Exc(session, got.calls)
        ELSE IF got.err # None THEN OutCalls(The(got.err), Goto(session, TRIAGE), got.calls)
        ELSE IF Len(got.labels) < 3 THEN Exc(offered, got.calls)
        ELSE OutCalls("I can do: 1) {labels[0]}, 2) {labels[1]}, 3) {labels[2]}. Say 1, 2, or 3.",
                      offered, got.calls)

offer_slots(session, pref, env, pick_state) ==
    offer(session,
          suggest_top_slots(session,
                            DictGet(get_clinic(session), "slot_minutes", DEFAULT_DURATION_MIN),
                            pref, env),
          pick_state)

resch_offer_slots(session, env) == offer_slots(session, <<>>, env, RESCH_PICK_SLOT)

\* the choice of one of the offered slots
pick_slot(user_said, session, confirm_state, prompt) ==
    LET m == search_123(_norm(user_said))
        idx == The(m) - 1
        offered == DictGet(session, LAST_OFFERED_SLOTS_KEY, None)
        slots == IF offered = None THEN <<>> ELSE The(offered)
    IN  IF m = None THEN Out("Please say 1, 2, or 3.", session)
        ELSE IF idx < 0 \/ idx >= Len(slots) THEN Out("Please say 1, 2, or 3.", session)
        ELSE Out(prompt, Goto(DictSet(session, SELECTED_SLOT_KEY, Some(slots[idx + 1])),
                              confirm_state))

resch_pick_slot(user_said, session) ==
    pick_slot(user_said, session, RESCH_CONFIRM,
              "Great. Please confirm rescheduling to option {idx + 1}. Say yes or no.")

resch_confirm(user_said, session, env) ==
    LET clinic == get_clinic(session)
        event_id == DictGet(session, "resch_event_id", None)
        chosen == DictGet(session, SELECTED_SLOT_KEY, None)
        call == patch_event_time(The(event_id), fromisoformat(The(chosen).start),
                                 fromisoformat(The(chosen).end),
                                 DictGet(clinic, "calendar_id", "primary"))
    IN  IF _norm(user_said) \notin YES_WORDS
        THEN Out("No problem. What would you like to do instead?",
                 pop_resch(clear_flow(Goto(session, TRIAGE))))
        ELSE IF ~ has_tokens(env) THEN Out(OFFLINE, Goto(session, TRIAGE))
        ELSE IF event_id = None \/ chosen = None
        THEN Out("Something went wrong rescheduling. Please try again.", Goto(session, TRIAGE))
        ELSE IF env.api = "error" THEN Exc(session, <<call>>)
        ELSE OutCall("All set - your appointment has been rescheduled.",
                     pop_resch(clear_flow(Goto(session, TRIAGE))), call)

cancel_confirm(user_said, session, env) ==
    LET clinic == get_clinic(session)
        event_id == DictGet(session, "resch_event_id", None)
        call == delete_event(The(event_id), DictGet(clinic, "calendar_id", "primary"))
        cleared == pop_resch(DictSet(Goto(session, TRIAGE), "collected", EmptyDict))
    IN  IF _norm(user_said) \notin YES_WORDS
        THEN Out("Okay - I won't cancel it. What would you like to do instead?", cleared)
        ELSE IF ~ has_tokens(env) THEN Out(OFFLINE, Goto(session, TRIAGE))
        ELSE IF event_id = None
        THEN Out("I couldn't identify the appointment to cancel. Please try again.",
                 Goto(session, TRIAGE))
        ELSE IF env.api = "error" THEN Exc(session, <<call>>)
        ELSE OutCall("Done - your appointment has been cancelled.", cleared, call)

book_patient_type(user_said, session) ==
    Out("Thanks. What's your full name?",
        Goto(Collect(session, "patient_type", Strip(user_said)), BOOK_NAME))

book_name(user_said, session) ==
    Out("And what's the best phone number for the appointment?",
        Goto(Collect(session, "name", Strip(user_said)), BOOK_PHONE))

book_phone(user_said, session) ==
    LET phone_raw == Strip(user_said)
    IN  IF ~ is_valid_phone(phone_raw)
        THEN Out("Sorry - I didn't catch a valid phone number. Please say the phone number again.",
                 session)
        ELSE Out("What is the appointment for? For example back pain, knee injury, or a follow-up.",
                 Goto(Collect(session, "phone", normalize_phone(phone_raw)), BOOK_REASON))

book_reason(user_said, session) ==
    Out("When would you prefer? You can say tomorrow morning, Friday afternoon, or next week.",
        Goto(Collect(session, "reason", Strip(user_said)), BOOK_TIME_PREF))

book_time_pref(user_said, session) ==
    Out("Great - let me check availability.",
        Goto(Collect(session, "time_pref", Strip(user_said)), BOOK_OFFER_SLOTS))

book_offer_slots(session, env) ==
    offer_slots(session, DictGet(session["collected"], "time_pref", <<>>), env, BOOK_PICK_SLOT)

book_pick_slot(user_said, session) ==
    pick_slot(user_said, session, BOOK_CONFIRM_SLOT,
              "Great. Please confirm booking for option {idx + 1}. Say yes or no.")

\* f"{name} - {reason}"
booking_summary(collected) ==
    DictGet(collected, "name", S_Patient) \o <<" ","-"," ">> \o DictGet(collected, "reason", S_Appointment)

\* a description that leaves the phone number out
booking_description_without_phone(collected, clinic) ==
    <<"C","l","i","n","i","c",":"," ">> \o DictGet(clinic, "display_name", <<"C","l","i","n","i","c">>)
    \o <<"\n","P","a","t","i","e","n","t"," ","t","y","p","e",":"," ">> \o DictGet(collected, "patient_type", <<>>)
    \o <<"\n","R","e","a","s","o","n",":"," ">> \o DictGet(collected, "reason", <<>>)
    \o <<"\n","P","r","e","f","e","r","e","n","c","e",":"," ">> \o DictGet(collected, "time_pref", <<>>)

booking_description(collected, clinic) ==
    <<"C","l","i","n","i","c",":"," ">> \o DictGet(clinic, "display_name", <<"C","l","i","n","i","c">>)
    \o <<"\n","P","a","t","i","e","n","t"," ","t","y","p","e",":"," ">> \o DictGet(collected, "patient_type", <<>>)
    \o <<"\n","P","h","o","n","e",":"," ">> \o DictGet(collected, "phone", <<>>)
    \o <<"\n","R","e","a","s","o","n",":"," ">> \o DictGet(collected, "reason", <<>>)
    \o <<"\n","P","r","e","f","e","r","e","n","c","e",":"," ">> \o DictGet(collected, "time_pref", <<>>)
    \o <<"\n","B","o","o","k","e","d"," ","v","i","a"," ","R","o","c","h","S","o","l","u","t","i","o","n","s"," ","A","I"," ","r","e","c","e","p","t","i","o","n","i","s","t"," ","(","d","e","m","o",")",".">>

book_confirm_slot(user_said, session, env) ==
    LET clinic == get_clinic(session)
        collected == session["collected"]
        chosen == DictGet(session, SELECTED_SLOT_KEY, None)
        call == create_event(fromisoformat(The(chosen).start), fromisoformat(The(chosen).end),
                             booking_summary(collected), booking_description(collected, clinic),
                             DictGet(clinic, "calendar_id", "primary"))
        cleared == clear_flow(Goto(session, TRIAGE))
    IN  IF _norm(user_said) \notin YES_WORDS
        THEN Out("No problem. What would you like to do instead?", cleared)
        ELSE IF ~ has_tokens(env) THEN Out(OFFLINE, Goto(session, TRIAGE))
        ELSE IF chosen = None
        THEN Out("Something went wrong selecting the slot. Please try again.",
                 Goto(session, TRIAGE))
        ELSE IF env.api = "error" THEN Exc(session, <<call>>)
        ELSE IF env.api = "no_id"
        THEN OutCall("I couldn't create the booking. Please try again.", cleared, call)
        ELSE OutCall("You're booked. See you then.", cleared, call)

\* the answer to an FAQ intent, by the branch that produces it
faq_answer(intent, user_said, clinic) ==
    LET t == _norm(user_said)
    IN  IF intent = "FAQ_HOURS"
        THEN IF Contains(t, <<"w","e","e","k","e","n","d">>) \/ Contains(t, <<"s","a","t","u","r","d","a","y">>) \/ Contains(t, <<"s","u","n","d","a","y">>)
             THEN "Weekend availability depends on the clinic."
             ELSE IF Contains(t, <<"e","v","e","n","i","n","g">>) \/ Contains(t, <<"l","a","t","e">>) \/ Contains(t, <<"a","f","t","e","r"," ","w","o","r","k">>)
             THEN "Some clinics offer early morning or evening appointments."
             ELSE "{hours_summary}"
        ELSE IF intent = "FAQ_LOCATION"
        THEN IF Contains(t, <<"p","a","r","k","i","n","g">>) THEN "{address}. Parking: {parking}"
             ELSE IF Contains(t, <<"w","h","e","e","l","c","h","a","i","r">>) \/ Contains(t, <<"a","c","c","e","s","s","i","b","l","e">>)
             THEN "Most clinics can accommodate accessibility needs."
             ELSE "{address}"
        ELSE IF intent \in {"FAQ_PRICES", "FAQ_INSURANCE", "FAQ_SERVICES", "FAQ_CONDITIONS",
                            "FAQ_REFERRAL", "FAQ_FIRST_VISIT", "FAQ_POLICIES", "FAQ_PRIVACY"}
        THEN intent
        ELSE "Sure - can you tell me a bit more about what you need so I can help accurately?"

\* the intents whose name starts with "FAQ_"
FAQ_INTENTS ==
    {"FAQ_PRICES", "FAQ_HOURS", "FAQ_LOCATION", "FAQ_INSURANCE", "FAQ_SERVICES",
     "FAQ_CONDITIONS", "FAQ_REFERRAL", "FAQ_FIRST_VISIT", "FAQ_POLICIES", "FAQ_PRIVACY"}

\* a dispatch that answers a question and drops what the session collected
triage_dispatch_forgetful(user_said, session) ==
    LET intent == detect_intent(user_said)
        s == DictSet(session, "intent", Some(intent))
    IN  IF intent = "BOOK"
        THEN Out("Sure - are you a new or returning patient?",
                 Goto(pop_resch(clear_flow(s)), BOOK_PATIENT_TYPE))
        ELSE IF intent = "RESCHEDULE"
        THEN Out("Sure - do you want to reschedule or cancel your appointment?",
                 Goto(pop_resch(clear_flow(s)), RESCH_CHOICE))
        ELSE Out(faq_answer(intent, user_said, get_clinic(session)), clear_flow(s))

\* the last part of triage_turn: classify the utterance and enter a flow
triage_dispatch(user_said, session) ==
    LET intent == detect_intent(user_said)
        s == DictSet(session, "intent", Some(intent))
    IN  IF intent = "BOOK"
        THEN Out("Sure - are you a new or returning patient?",
                 Goto(pop_resch(clear_flow(s)), BOOK_PATIENT_TYPE))
        ELSE IF intent = "RESCHEDULE"
        THEN Out("Sure - do you want to reschedule or cancel your appointment?",
                 Goto(pop_resch(clear_flow(s)), RESCH_CHOICE))
        ELSE IF intent \in FAQ_INTENTS
        THEN Out(faq_answer(intent, user_said, get_clinic(session)), s)
        ELSE IF intent = "HUMAN"
        THEN Out("Okay. Please tell me your name and phone number and the clinic will call you back.", s)
        ELSE Out("I can help with booking, rescheduling or cancelling, prices, insurance, opening hours, location, or general questions. What would you like to do?", s)

triage_turn(user_said, session, env) ==
    LET s0 == DictSetDefault(DictSetDefault(DictSetDefault(session, "collected", EmptyDict),
                                            LAST_OFFERED_SLOTS_KEY, None),
                             SELECTED_SLOT_KEY, None)
        state == DictGet(session, "state", TRIAGE)
    IN  IF user_said = <<>>
        THEN Out("I didn't catch that. What would you like to do?", session)
        ELSE IF _norm(user_said) \in RESTART_WORDS THEN global_restart(s0)
        ELSE IF _norm(user_said) \in REPEAT_WORDS /\ state \in {BOOK_PICK_SLOT, RESCH_PICK_SLOT}
        THEN Out("Sure. Please say 1, 2, or 3.", s0)
        ELSE IF state = RESCH_CHOICE THEN resch_choice(user_said, s0)
        ELSE IF state = RESCH_NAME THEN resch_name(user_said, s0)
        ELSE IF state = RESCH_PHONE THEN resch_phone(user_said, s0)
        ELSE IF state = RESCH_FIND THEN resch_find(s0, env)
        ELSE IF state = RESCH_OFFER_SLOTS THEN resch_offer_slots(s0, env)
        ELSE IF state = RESCH_PICK_SLOT THEN resch_pick_slot(user_said, s0)
        ELSE IF state = RESCH_CONFIRM THEN resch_confirm(user_said, s0, env)
        ELSE IF state = CANCEL_CONFIRM THEN cancel_confirm(user_said, s0, env)
        ELSE IF state = BOOK_PATIENT_TYPE THEN book_patient_type(user_said, s0)
        ELSE IF state = BOOK_NAME THEN book_name(user_said, s0)
        ELSE IF state = BOOK_PHONE THEN book_phone(user_said, s0)
        ELSE IF state = BOOK_REASON THEN book_reason(user_said, s0)
        ELSE IF state = BOOK_TIME_PREF THEN book_time_pref(user_said, s0)
        ELSE IF state = BOOK_OFFER_SLOTS THEN book_offer_slots(s0, env)
        ELSE IF state = BOOK_PICK_SLOT THEN book_pick_slot(user_said, s0)
        ELSE IF state = BOOK_CONFIRM_SLOT THEN book_confirm_slot(user_said, s0, env)
        ELSE triage_dispatch(user_said, s0)

\* ------------------------------------------------------------------------
\* Session store (app/storage/redis_store.py)
\* ------------------------------------------------------------------------

DEFAULT_SESSION == [intent |-> None, state |-> "TRIAGE", collected |-> EmptyDict]

\* json.dumps: the stored text of a value
json_dumps(value) == <<"json", value>>

\* json.loads: the value of a stored text, or a failure
json_loads(raw) ==
    IF Len(raw) = 2 /\ raw[1] = "json" THEN [ok |-> TRUE, value |-> raw[2]]
    ELSE [ok |-> FALSE, value |-> None]

VARIABLES
    store,          \* Redis: call id -> stored session text, or None
    google_tokens,  \* Redis key "google_tokens": the calendar credential, or None
    redis_client,   \* whether REDIS_URL is set
    last,           \* the turn just run, what came in and what went out; NoTurn after any other step
    fn,             \* the last application of a pure function: op, arg, res
    script,         \* how many utterances of the booking script were said
    shared_collected, \* the dict DEFAULT_SESSION["collected"] refers to
    pending         \* the requests that loaded their session and have not answered yet

vars == <<store, google_tokens, redis_client, last, fn, script, shared_collected, pending>>

\* the call ids of the model; "" is a request without CallSid
Calls == {"CA1"}

\* DEFAULT_SESSION.copy(): a new dict whose "collected" is the dict of
\* DEFAULT_SESSION itself (the copy is shallow)
DEFAULT_SESSION_copy == [DEFAULT_SESSION EXCEPT !["collected"] = shared_collected]

\* whether get_session(call_sid) returns DEFAULT_SESSION.copy()
is_default_copy(call_sid) ==
    \/ call_sid = ""
    \/ ~ redis_client
    \/ store[call_sid] = None
    \/ ~ json_loads(The(store[call_sid])).ok

\* get_session without the try/except around json.loads
get_session_trusts_json(call_sid) ==
    IF call_sid = "" THEN DEFAULT_SESSION_copy
    ELSE IF ~ redis_client THEN DEFAULT_SESSION_copy
    ELSE IF store[call_sid] = None THEN DEFAULT_SESSION_copy
    ELSE json_loads(The(store[call_sid])).value

get_session(call_sid) ==
    IF call_sid = "" THEN DEFAULT_SESSION_copy
    ELSE IF ~ redis_client THEN DEFAULT_SESSION_copy
    ELSE IF store[call_sid] = None THEN DEFAULT_SESSION_copy
    ELSE LET parsed == json_loads(The(store[call_sid]))
         IN  IF parsed.ok THEN parsed.value ELSE DEFAULT_SESSION_copy

\* a save under one key for all calls
save_session_one_key(call_sid, session) ==
    IF call_sid = "" \/ ~ redis_client THEN store
    ELSE [c \in DOMAIN store |-> Some(json_dumps(session))]

\* the store after save_session(call_sid, session)
save_session(call_sid, session) ==
    IF call_sid = "" \/ ~ redis_client THEN store
    ELSE [store EXCEPT ![call_sid] = Some(json_dumps(session))]

\* redis_get_json(TOKENS_KEY)
redis_get_json_tokens == IF redis_client THEN google_tokens ELSE None

\* ------------------------------------------------------------------------
\* What callers say and what the calendar answers
\* ------------------------------------------------------------------------

U_empty == <<>>

U_blank == <<" ","\t">>

U_start_over == <<" ","S","t","a","r","t"," "," ","O","v","e","r">>

U_repeat == <<"r","e","p","e","a","t">>

U_Yes == <<"Y","e","s">>

U_book == <<"I"," ","w","a","n","t"," ","t","o"," ","b","o","o","k"," ","a","n"," ","a","p","p","o","i","n","t","m","e","n","t">>

U_cancel == <<"c","a","n","c","e","l">>

U_postpone == <<"C","a","n"," ","I"," ","p","o","s","t","p","o","n","e">>

U_prices == <<"h","o","w"," ","m","u","c","h"," ","i","s"," ","i","t">>

U_book_price == <<"h","o","w"," ","m","u","c","h"," ","t","o"," ","b","o","o","k">>

U_hello == <<"h","e","l","l","o">>

U_human == <<"a"," ","p","e","r","s","o","n"," ","p","l","e","a","s","e">>

U_new_patient == <<"n","e","w"," ","p","a","t","i","e","n","t">>

U_Jane_Doe == <<"J","a","n","e"," ","D","o","e">>

U_phone11 == <<"0","7","1","2","3","4","5","6","7","8","9">>

U_phone11_spoken == <<"c","a","l","l"," ","m","e"," ","a","t"," ","0","7","1","2","3"," ","4","5","6","7","8","9">>

U_phone9 == <<"0","7","1","2","3","4","5","6","7">>

U_phone10 == <<"0","7","1","2","3","4","5","6","7","8">>

U_phone15 == <<"+","4","4"," ","7","1","2","3"," ","4","5","6"," ","7","8","9"," ","0","1","2">>

U_phone16 == <<"0","7","1","2","3","4","5","6","7","8","9","0","1","2","3","4">>

U_123 == <<"1","2","3">>

U_back_pain == <<"b","a","c","k"," ","p","a","i","n">>

U_morning == <<"m","o","r","n","i","n","g">>

U_evening == <<"i","n"," ","t","h","e"," ","e","v","e","n","i","n","g">>

U_next_week == <<"n","e","x","t"," ","w","e","e","k">>

U_2 == <<"2">>

U_option_3_or_1 == <<"O","p","t","i","o","n"," ","3",","," ","o","r"," ","1">>

U_4 == <<"4">>

U_y == <<"y">>

U_yeah == <<"y","e","a","h">>

U_confirm == <<"c","o","n","f","i","r","m">>

U_OK == <<" ","O","K"," ">>

U_no == <<"n","o">>

U_maybe == <<"m","a","y","b","e">>

U_yes_please == <<"y","e","s"," ","p","l","e","a","s","e">>

U_reschedule_it == <<"r","e","s","c","h","e","d","u","l","e"," ","i","t">>

\* said at any point of a call
CommonUtterances == {U_empty, U_blank, U_start_over}

\* what a caller answers to the prompt of each state
Answers(state) ==
    IF state = TRIAGE
    THEN {U_book, U_cancel, U_postpone, U_prices, U_hello, U_human, U_repeat}
    ELSE IF state = BOOK_PATIENT_TYPE THEN {U_new_patient}
    ELSE IF state \in {BOOK_NAME, RESCH_NAME} THEN {U_Jane_Doe}
    ELSE IF state \in {BOOK_PHONE, RESCH_PHONE}
    THEN {U_phone11, U_phone11_spoken, U_phone9, U_phone10, U_phone15, U_phone16, U_123}
    ELSE IF state = BOOK_REASON THEN {U_back_pain}
    ELSE IF state = BOOK_TIME_PREF THEN {U_morning, U_evening, U_next_week}
    ELSE IF state \in {BOOK_OFFER_SLOTS, RESCH_OFFER_SLOTS, RESCH_FIND} THEN {U_Yes}
    ELSE IF state \in {BOOK_PICK_SLOT, RESCH_PICK_SLOT}
    THEN {U_2, U_option_3_or_1, U_4, U_123, U_repeat}
    ELSE IF state \in {BOOK_CONFIRM_SLOT, RESCH_CONFIRM, CANCEL_CONFIRM}
    THEN {U_Yes, U_y, U_yeah, U_confirm, U_OK, U_no, U_maybe, U_yes_please, U_repeat}
    ELSE IF state = RESCH_CHOICE THEN {U_cancel, U_reschedule_it}
    ELSE {}

Utterances(state) == CommonUtterances \cup Answers(state)

\* the clock when a turn runs: Monday 08:10:30 and Friday 17:10:00
NowValues == {8 * SecondsPerHour + 10 * SecondsPerMinute + 30,
              4 * SecondsPerDay + 17 * SecondsPerHour + 10 * SecondsPerMinute}

BusyBlock(start, end) == [start |-> isoformat(start), end |-> isoformat(end)]

\* what the calendar reports busy: nothing; everything; everything from
\* Monday 10:00 on (two free slots are left on Monday); everything up to
\* Friday 12:00, with a block that has no end
BusyConfigs ==
    {<<>>,
     <<BusyBlock(0, 14 * SecondsPerDay)>>,
     <<BusyBlock(10 * SecondsPerHour, 14 * SecondsPerDay)>>,
     <<[start |-> isoformat(0)], BusyBlock(0, 4 * SecondsPerDay + 12 * SecondsPerHour)>>}

CalEvent(id, summary, description) ==
    [id |-> Some(id), summary |-> summary, description |-> description]

\* the upcoming events of the calendar: none; one whose description holds
\* the caller's number; one without description, another caller's, the caller's
EventConfigs ==
    {<<>>,
     <<CalEvent("evt1", <<"J","a","n","e"," ","D","o","e"," ","-"," ","b","a","c","k"," ","p","a","i","n">>, <<"P","h","o","n","e",":"," ","0","7","1","2","3","4","5","6","7","8","9","\n","R","e","a","s","o","n",":"," ","b","a","c","k"," ","p","a","i","n">>)>>,
     <<[id |-> Some("evt2"), summary |-> <<"S","t","a","f","f"," ","m","e","e","t","i","n","g">>],
       CalEvent("evt3", <<"J","o","h","n"," ","R","o","e"," ","-"," ","k","n","e","e">>, <<"P","h","o","n","e",":"," ","0","7","9","9","9"," ","0","0","0","1","1","1">>),
       CalEvent("evt4", <<"J","a","n","e"," ","D","o","e"," ","-"," ","f","o","l","l","o","w","-","u","p">>, <<"P","h","o","n","e",":"," ","+","4","4"," ","7","1","2","3"," ","4","5","6"," ","7","8","9"," ","0","1","2">>)>>}

IdleEnv == [tokens |-> redis_get_json_tokens, now |-> 0, busy |-> <<>>, events |-> <<>>, api |-> "ok"]

\* the calendar as the turn of a session in this state can observe it
Envs(state) ==
    IF state \in {BOOK_OFFER_SLOTS, RESCH_OFFER_SLOTS}
    THEN {[IdleEnv EXCEPT !.now = n, !.busy = b, !.api = a] :
            n \in NowValues, b \in BusyConfigs, a \in {"ok", "error"}}
    ELSE IF state = RESCH_FIND
    THEN {[IdleEnv EXCEPT !.events = e, !.api = a] : e \in EventConfigs, a \in {"ok", "error"}}
    ELSE IF state = BOOK_CONFIRM_SLOT
    THEN {[IdleEnv EXCEPT !.api = a] : a \in {"ok", "no_id", "error"}}
    ELSE IF state \in {RESCH_CONFIRM, CANCEL_CONFIRM}
    THEN {[IdleEnv EXCEPT !.api = a] : a \in {"ok", "error"}}
    ELSE {IdleEnv}

\* ------------------------------------------------------------------------
\* Actions
\* ------------------------------------------------------------------------

\* the environment of no turn
NoEnv == [tokens |-> None, now |-> 0, busy |-> <<>>, events |-> <<>>, api |-> ""]

NoTurn ==
    [call |-> "", state |-> "", said |-> <<>>, tokens |-> None, api |-> "", raised |-> FALSE,
     reply |-> "", calls |-> <<>>, before |-> None, session |-> None, env |-> NoEnv]

NoFn == [op |-> "", arg |-> <<>>, res |-> ""]

\* the requests that can be in flight at once
Requests == {"request1", "request2"}

NoPending == [r \in Requests |-> None]

Init ==
    /\ store = [c \in Calls \ {""} |-> None]
    /\ google_tokens = None
    /\ redis_client \in BOOLEAN
    /\ last = NoTurn
    /\ fn = NoFn
    /\ script = 0
    /\ shared_collected = EmptyDict
    /\ pending = NoPending

\* the dict of DEFAULT_SESSION["collected"] after a turn that returned this
\* session: when the session loaded was a copy of DEFAULT_SESSION, every
\* collected[...] = ... of the turn wrote into it (a turn that rebinds
\* session["collected"] rebinds it to {} and writes nothing afterwards)
collected_after(fresh, returned) ==
    IF fresh /\ DictGet(returned, "collected", EmptyDict) # EmptyDict
    THEN returned["collected"]
    ELSE shared_collected

\* the end of a turn whose triage_turn gave r: save the session unless the
\* turn raised
end_turn(call_sid, user_said, env, session, fresh, r) ==
    /\ store' = IF r.raised THEN store ELSE save_session(call_sid, r.session)
    /\ shared_collected' = collected_after(fresh, r.session)
    /\ last' = [call |-> call_sid, state |-> DictGet(session, "state", TRIAGE),
                said |-> user_said, tokens |-> env.tokens,
                api |-> IF r.calls = <<>> THEN "" ELSE env.api,
                raised |-> r.raised, reply |-> r.reply, calls |-> r.calls,
                before |-> Some(session),
                session |-> IF r.raised THEN None ELSE Some(r.session),
                env |-> env]
    /\ UNCHANGED <<google_tokens, redis_client, fn>>

\* triage_turn on the session loaded, then the end of the turn
run_session(call_sid, user_said, env, session, fresh) ==
    \E r \in {triage_turn(user_said, session, env)} :
        end_turn(call_sid, user_said, env, session, fresh, r)

\* load the session, run triage_turn on user_said, save the session unless
\* the turn raised
run_turn(call_sid, user_said, env) ==
    run_session(call_sid, user_said, env, get_session(call_sid), is_default_copy(call_sid))

\* triage_turn(user_said, session) on the stored session of the call
handle_turn(call_sid, user_said) ==
    /\ \E env \in Envs(DictGet(get_session(call_sid), "state", TRIAGE)) :
           run_turn(call_sid, user_said, env)
    /\ UNCHANGED <<script, pending>>

\* POST /twilio/turn with CallSid = call_sid and SpeechResult = speech
turn(call_sid, speech) == handle_turn(call_sid, Strip(speech))

\* GET /auth/google/callback with a good code: the credential is stored
google_callback ==
    /\ redis_client
    /\ google_tokens' = Some("tokens")
    /\ last' = NoTurn
    /\ UNCHANGED <<store, redis_client, fn, script, shared_collected, pending>>

\* the credential's Redis key expires or is removed
tokens_expire ==
    /\ google_tokens # None
    /\ google_tokens' = None
    /\ last' = NoTurn
    /\ UNCHANGED <<store, redis_client, fn, script, shared_collected, pending>>

\* the session's Redis key expires (ex=60 * 30)
session_expire(call_sid) ==
    /\ store[call_sid] # None
    /\ store' = [store EXCEPT ![call_sid] = None]
    /\ last' = NoTurn
    /\ UNCHANGED <<google_tokens, redis_client, fn, script, shared_collected, pending>>

Next ==
    \/ \E c \in Calls : \E u \in Utterances(DictGet(get_session(c), "state", TRIAGE)) : turn(c, u)
    \/ google_callback
    \/ tokens_expire
    \/ \E c \in Calls \ {""} : session_expire(c)

Spec == Init /\ [][Next]_vars

\* the session the next turn of the call would load, and its fields
Session(c) == get_session(c)

\* ------------------------------------------------------------------------
\* What the last turn did
\* ------------------------------------------------------------------------

Turned == last.before # None

\* the session the turn loaded, and the one it returned
before == The(last.before)

after == The(last.session)

ConfirmStates == {BOOK_CONFIRM_SLOT, RESCH_CONFIRM, CANCEL_CONFIRM}

PhoneStates == {BOOK_PHONE, RESCH_PHONE}

PickStates == {BOOK_PICK_SLOT, RESCH_PICK_SLOT}

MutationOps == {"create_event", "patch_event_time", "delete_event"}

Mutations(calls) == SelectSeq(calls, LAMBDA c : c.op \in MutationOps)

MutationOf(state) ==
    IF state = BOOK_CONFIRM_SLOT THEN "create_event"
    ELSE IF state = RESCH_CONFIRM THEN "patch_event_time"
    ELSE "delete_event"

Affirmative == {<<"y","e","s">>, <<"y">>, <<"y","e","a","h">>, <<"c","o","n","f","i","r","m">>, <<"o","k">>}

RestartCommands == {<<"r","e","s","t","a","r","t">>, <<"s","t","a","r","t"," ","o","v","e","r">>, <<"r","e","s","e","t">>}

Said == _norm(last.said)

\* state TRIAGE, nothing collected, no offered or selected slot, no event
\* under change
Cleared(s) ==
    /\ DictGet(s, "state", TRIAGE) = TRIAGE
    /\ DictGet(s, "collected", EmptyDict) = EmptyDict
    /\ DictGet(s, LAST_OFFERED_SLOTS_KEY, None) = None
    /\ DictGet(s, SELECTED_SLOT_KEY, None) = None
    /\ "resch_event_id" \notin DOMAIN s

\* ------------------------------------------------------------------------
\* Confirmation states
\* ------------------------------------------------------------------------

\* C2: an affirmative turn in BOOK_CONFIRM_SLOT, RESCH_CONFIRM or
\* CANCEL_CONFIRM with the credential present sends exactly one mutation
\* request (create, time patch, delete respectively), to the calendar of the
\* session's clinic.
C2_OneMutationPerConfirmation ==
    (Turned /\ last.state \in ConfirmStates /\ Said \in Affirmative /\ last.tokens # None)
    => LET m == Mutations(last.calls)
       IN  /\ Len(m) = 1
           /\ m[1].op = MutationOf(last.state)
           /\ m[1].calendar_id = get_clinic(before).calendar_id

C2_Witness ==
    /\ last.state = BOOK_CONFIRM_SLOT
    /\ Said \in Affirmative
    /\ last.tokens # None
    /\ Len(last.calls) = 1
    /\ last.calls[1].op = "create_event"
    /\ last.calls[1].calendar_id = CLINICS["demo"].calendar_id
    /\ last.calls[1].start = The(before[SELECTED_SLOT_KEY]).start

\* C3: after the mutation request of a confirmed turn, whether it succeeds,
\* returns no event id or raises, the turn reports in its reply and the
\* session stored for the call is in TRIAGE with everything cleared.
C3_ClearedAfterMutation ==
    (Turned /\ last.state \in ConfirmStates /\ Mutations(last.calls) # <<>>)
    => /\ ~ last.raised
       /\ Cleared(Session(last.call))

\* C4: an affirmative turn in a confirmation state without the credential
\* goes to TRIAGE with the offline reply and sends no mutation request.
C4_OfflineConfirmation ==
    (Turned /\ last.state \in ConfirmStates /\ Said \in Affirmative /\ last.tokens = None)
    => /\ ~ last.raised
       /\ after.state = TRIAGE
       /\ last.reply = "The clinic calendar is currently offline. Please try again shortly."
       /\ Mutations(last.calls) = <<>>
       /\ Session(last.call).state = TRIAGE

C4_Witness ==
    /\ last.state = CANCEL_CONFIRM
    /\ Said \in Affirmative
    /\ last.tokens = None
    /\ last.reply = "The clinic calendar is currently offline. Please try again shortly."
    /\ after.state = TRIAGE

\* what C5 promises of a declined confirmation
Declined ==
    /\ ~ last.raised
    /\ Cleared(after)
    /\ Cleared(Session(last.call))
    /\ last.calls = <<>>

\* C5 as stated: in every confirmation state any utterance whose normalized
\* form is not yes, y, yeah, confirm or ok goes to TRIAGE in that turn with
\* everything cleared and no mutation request.
C5_AnyOtherUtteranceDeclines ==
    (Turned /\ last.state \in ConfirmStates /\ Said \notin Affirmative) => Declined

\* C5: in every confirmation state any utterance that is not empty and whose
\* normalized form is not yes, y, yeah, confirm or ok goes to TRIAGE in that
\* turn with everything cleared and no mutation request; the empty utterance
\* is re-prompted and the session stays as it is.
C5_NonEmptyOtherUtteranceDeclines ==
    (Turned /\ last.state \in ConfirmStates /\ Said \notin Affirmative)
    => IF last.said # <<>> THEN Declined
       ELSE ~ last.raised /\ after = before /\ last.calls = <<>>

C5_Witness ==
    /\ last.state = RESCH_CONFIRM
    /\ Said = <<"m","a","y","b","e">>
    /\ DictGet(before, "collected", EmptyDict) # EmptyDict
    /\ "resch_event_id" \in DOMAIN before
    /\ Declined

\* ------------------------------------------------------------------------
\* Phone steps
\* ------------------------------------------------------------------------

\* the digits of the utterance, in order
SaidDigits == SelectSeq(last.said, LAMBDA c : c \in {"0", "1", "2", "3", "4", "5", "6", "7", "8", "9"})

PhoneAccepted ==
    /\ ~ last.raised
    /\ after.state = (IF last.state = BOOK_PHONE THEN BOOK_REASON ELSE RESCH_FIND)
    /\ after.collected = DictSet(before.collected, "phone", SaidDigits)
    /\ Session(last.call).collected.phone = SaidDigits
    /\ last.calls = <<>>

PhoneReprompted ==
    /\ ~ last.raised
    /\ last.reply \in {"Sorry - I didn't catch a valid phone number. Please say the phone number again.",
                       "I didn't catch that. What would you like to do?"}
    /\ after.state = last.state
    /\ after.collected = before.collected
    /\ Session(last.call) = before
    /\ last.calls = <<>>

\* C7 as stated: in BOOK_PHONE and RESCH_PHONE an utterance is accepted iff
\* it holds 10 to 15 digits; then the stored phone is that digit string and
\* the state advances; every other utterance is re-prompted with state and
\* collected unchanged.
C7_PhoneAcceptedIffDigits ==
    (Turned /\ last.state \in PhoneStates)
    => IF 10 <= Len(SaidDigits) /\ Len(SaidDigits) <= 15 THEN PhoneAccepted ELSE PhoneReprompted

\* C7: in BOOK_PHONE and RESCH_PHONE an utterance is accepted iff it holds 10
\* to 15 digits; then the stored phone is that digit string and the state
\* advances; every other utterance is re-prompted with state and collected
\* unchanged, except restart, start over and reset, which clear the session.
C7_PhoneAcceptedIffDigitsOrRestart ==
    (Turned /\ last.state \in PhoneStates)
    => IF 10 <= Len(SaidDigits) /\ Len(SaidDigits) <= 15 THEN PhoneAccepted
       ELSE IF Said \in RestartCommands THEN ~ last.raised /\ Cleared(after)
       ELSE PhoneReprompted

C7_Witness ==
    /\ last.state = BOOK_PHONE
    /\ last.said = <<"c","a","l","l"," ","m","e"," ","a","t"," ","0","7","1","2","3"," ","4","5","6","7","8","9">>
    /\ after.state = BOOK_REASON
    /\ after.collected.phone = <<"0","7","1","2","3","4","5","6","7","8","9">>

\* ------------------------------------------------------------------------
\* Slot pick
\* ------------------------------------------------------------------------

\* the positions of the normalized utterance that hold 1, 2 or 3 with no
\* letter, digit or underscore next to it
StandaloneAt ==
    {i \in 1..Len(Said) :
        /\ Said[i] \in {"1", "2", "3"}
        /\ \A j \in {i - 1, i + 1} \cap (1..Len(Said)) : Said[j] \notin WordChars}

SaidChoice ==
    LET first == CHOOSE i \in StandaloneAt : \A j \in StandaloneAt : i <= j
    IN  IF Said[first] = "1" THEN 1 ELSE IF Said[first] = "2" THEN 2 ELSE 3

Offered == IF before[LAST_OFFERED_SLOTS_KEY] = None THEN <<>> ELSE The(before[LAST_OFFERED_SLOTS_KEY])

PickReprompted ==
    /\ ~ last.raised
    /\ last.reply \in {"Please say 1, 2, or 3.", "Sure. Please say 1, 2, or 3.",
                       "I didn't catch that. What would you like to do?"}
    /\ after.state = last.state
    /\ after[SELECTED_SLOT_KEY] = before[SELECTED_SLOT_KEY]
    /\ after[LAST_OFFERED_SLOTS_KEY] = before[LAST_OFFERED_SLOTS_KEY]
    /\ Session(last.call) = before

PickAccepted ==
    /\ ~ last.raised
    /\ after.state = (IF last.state = BOOK_PICK_SLOT THEN BOOK_CONFIRM_SLOT ELSE RESCH_CONFIRM)
    /\ after[SELECTED_SLOT_KEY] = Some(Offered[SaidChoice])
    /\ after[LAST_OFFERED_SLOTS_KEY] = before[LAST_OFFERED_SLOTS_KEY]
    /\ Session(last.call) = after

\* C8 as stated: in BOOK_PICK_SLOT and RESCH_PICK_SLOT the choice is the
\* first standalone 1, 2 or 3 of the normalized utterance; without one, or
\* with one beyond the offered slots, the turn re-prompts and state,
\* selected slot and offered slots are unchanged; otherwise the selected
\* slot is the offered slot at that position and the state is the matching
\* confirm state.
C8_PickFirstStandaloneDigit ==
    (Turned /\ last.state \in PickStates)
    => IF StandaloneAt = {} THEN PickReprompted
       ELSE IF SaidChoice > Len(Offered) THEN PickReprompted
       ELSE PickAccepted

\* C8: as above, except that restart, start over and reset, which hold no
\* digit, clear the session instead of re-prompting.
C8_PickFirstStandaloneDigitOrRestart ==
    (Turned /\ last.state \in PickStates)
    => IF Said \in RestartCommands THEN ~ last.raised /\ Cleared(after)
       ELSE IF StandaloneAt = {} THEN PickReprompted
       ELSE IF SaidChoice > Len(Offered) THEN PickReprompted
       ELSE PickAccepted

C8_Witness ==
    /\ last.state = RESCH_PICK_SLOT
    /\ last.said = <<"O","p","t","i","o","n"," ","3",","," ","o","r"," ","1">>
    /\ Len(Offered) = 3
    /\ after.state = RESCH_CONFIRM
    /\ after[SELECTED_SLOT_KEY] = Some(Offered[3])
    /\ Offered[3] # Offered[1]

\* ------------------------------------------------------------------------
\* Global restart
\* ------------------------------------------------------------------------

\* C9: in every state an utterance whose normalized form is restart, start
\* over or reset gives state TRIAGE, nothing collected, no offered or
\* selected slot and no event under change, and sends no calendar request,
\* whatever the state's own step would have done with it.
C9_RestartFromEveryState ==
    (Turned /\ Said \in RestartCommands)
    => /\ ~ last.raised
       /\ last.reply = "Okay - starting over. What would you like to do?"
       /\ Cleared(after)
       /\ "resch_event_summary" \notin DOMAIN after
       /\ Cleared(Session(last.call))
       /\ last.calls = <<>>

C9_Witness ==
    /\ last.state = RESCH_CONFIRM
    /\ Said = <<"s","t","a","r","t"," ","o","v","e","r">>
    /\ last.tokens # None
    /\ "resch_event_id" \in DOMAIN before
    /\ before[SELECTED_SLOT_KEY] # None
    /\ before.collected # EmptyDict
    /\ Cleared(after)
    /\ last.calls = <<>>

\* ------------------------------------------------------------------------
\* triage_turn called with the utterance as it is, without the route's strip
\* ------------------------------------------------------------------------

\* what triage_turn is called with in each state: no text, blanks, and the
\* answers that carry the conversation on
CoreUtterances(state) ==
    {U_empty, U_blank}
    \cup (IF state = TRIAGE THEN {U_book, U_cancel}
          ELSE IF state = BOOK_PATIENT_TYPE THEN {U_new_patient}
          ELSE IF state \in {BOOK_NAME, RESCH_NAME} THEN {U_Jane_Doe}
          ELSE IF state \in {BOOK_PHONE, RESCH_PHONE} THEN {U_phone11, U_123}
          ELSE IF state = BOOK_REASON THEN {U_back_pain}
          ELSE IF state = BOOK_TIME_PREF THEN {U_morning}
          ELSE IF state \in {BOOK_PICK_SLOT, RESCH_PICK_SLOT} THEN {U_2}
          ELSE IF state = RESCH_CHOICE THEN {U_cancel, U_reschedule_it}
          ELSE {U_Yes})

NextCore ==
    \/ \E c \in Calls : \E u \in CoreUtterances(DictGet(get_session(c), "state", TRIAGE)) :
           handle_turn(c, u)
    \/ google_callback
    \/ tokens_expire
    \/ \E c \in Calls \ {""} : session_expire(c)

SpecCore == Init /\ [][NextCore]_vars

Script ==
    <<<<"I"," ","w","a","n","t"," ","t","o"," ","b","o","o","k"," ","a","n"," ","a","p","p","o","i","n","t","m","e","n","t">>, <<"n","e","w"," ","p","a","t","i","e","n","t">>, <<"J","a","n","e"," ","D","o","e">>, <<"0","7","1","2","3","4","5","6","7","8","9">>,
      <<"b","a","c","k"," ","p","a","i","n">>, <<"m","o","r","n","i","n","g">>, <<"2">>, <<"y","e","s">>>>

\* the state each utterance of the script is to be heard in
ScriptPath ==
    <<TRIAGE, BOOK_PATIENT_TYPE, BOOK_NAME, BOOK_PHONE, BOOK_REASON, BOOK_TIME_PREF,
      BOOK_PICK_SLOT, BOOK_CONFIRM_SLOT, TRIAGE>>

\* POST /twilio/turn with the next utterance of the script
scripted_turn(call_sid) ==
    /\ script < Len(Script)
    /\ \E env \in Envs(DictGet(get_session(call_sid), "state", TRIAGE)) :
           run_turn(call_sid, Strip(Script[script + 1]), env)
    /\ script' = script + 1
    /\ UNCHANGED pending

NextBooking ==
    \/ \E c \in Calls : scripted_turn(c)
    \/ google_callback
    \/ tokens_expire
    \/ \E c \in Calls \ {""} : session_expire(c)

SpecBooking == Init /\ [][NextBooking]_vars

\* the turn that heard utterance k of the script in the state the script
\* expects, with the credential connected
ScriptStep(k) ==
    /\ Turned
    /\ script = k
    /\ last.state = ScriptPath[k]
    /\ last.tokens # None

\* C1: from a fresh session with the credential connected and at least three
\* free slots, the script goes one state per utterance through
\* BOOK_PATIENT_TYPE .. BOOK_TIME_PREF; "morning" offers up to three slots
\* and leaves BOOK_PICK_SLOT; "2" leaves BOOK_CONFIRM_SLOT with the second
\* offered slot selected; "yes" sends exactly one create request and leaves
\* TRIAGE.
C1_BookingScript ==
    /\ \A k \in 1..5 : ScriptStep(k) => ~ last.raised /\ after.state = ScriptPath[k + 1]
    /\ ScriptStep(6)
       => /\ ~ last.raised
          /\ after.state = BOOK_PICK_SLOT
          /\ after[LAST_OFFERED_SLOTS_KEY] # None
          /\ Len(The(after[LAST_OFFERED_SLOTS_KEY])) \in 1..3
    /\ ScriptStep(7)
       => /\ ~ last.raised
          /\ after.state = BOOK_CONFIRM_SLOT
          /\ after[SELECTED_SLOT_KEY] = Some(The(before[LAST_OFFERED_SLOTS_KEY])[2])
    /\ ScriptStep(8)
       => /\ ~ last.raised
          /\ Len(Mutations(last.calls)) = 1
          /\ Mutations(last.calls)[1].op = "create_event"
          /\ after.state = TRIAGE

\* ------------------------------------------------------------------------
\* Intent classification as a function of the text
\* ------------------------------------------------------------------------

\* the categories in the order of precedence, each with its keywords
IntentPrecedence ==
    <<[name |-> "BOOK", keywords |-> KW_BOOK],
      [name |-> "RESCHEDULE", keywords |-> KW_RESCHEDULE],
      [name |-> "FAQ_PRICES", keywords |-> KW_FAQ_PRICES],
      [name |-> "FAQ_HOURS", keywords |-> KW_FAQ_HOURS],
      [name |-> "FAQ_LOCATION", keywords |-> KW_FAQ_LOCATION],
      [name |-> "FAQ_INSURANCE", keywords |-> KW_FAQ_INSURANCE],
      [name |-> "FAQ_SERVICES", keywords |-> KW_FAQ_SERVICES],
      [name |-> "FAQ_CONDITIONS", keywords |-> KW_FAQ_CONDITIONS],
      [name |-> "FAQ_REFERRAL", keywords |-> KW_FAQ_REFERRAL],
      [name |-> "FAQ_FIRST_VISIT", keywords |-> KW_FAQ_FIRST_VISIT],
      [name |-> "FAQ_POLICIES", keywords |-> KW_FAQ_POLICIES],
      [name |-> "FAQ_PRIVACY", keywords |-> KW_FAQ_PRIVACY],
      [name |-> "HUMAN", keywords |-> KW_HUMAN]>>

Categories == 1..Len(IntentPrecedence)

\* the texts classified: no text, blanks, texts without a keyword, every
\* keyword alone, the first keywords of every two categories together, and
\* texts in capitals with runs of blanks
IntentTexts ==
    {<<>>, U_blank, U_hello, U_Jane_Doe, U_book_price, U_postpone,
     <<" "," ","H","O","W"," "," "," ","M","U","C","H"," "," "," ","t","o"," "," ","B","o","o","k"," ">>, <<"P","r","i","c","e"," ","o","f"," ","a"," ","S","L","O","T","?">>, <<"w","h","a","t"," ","i","s"," ","t","h","e"," ","f","e","e"," ","t","o"," ","c","a","n","c","e","l">>,
     <<"t","a","l","k"," ","t","o"," ","a"," ","h","u","m","a","n"," ","a","b","o","u","t"," ","p","a","r","k","i","n","g">>}
    \cup UNION {{IntentPrecedence[i].keywords[k] : k \in 1..Len(IntentPrecedence[i].keywords)} :
                   i \in Categories}
    \cup {IntentPrecedence[i].keywords[1] \o <<" ", "o", "r", " ">> \o IntentPrecedence[j].keywords[1] :
            i \in Categories, j \in Categories}

InitIntent ==
    /\ store = [c \in Calls \ {""} |-> None]
    /\ google_tokens = None
    /\ redis_client = FALSE
    /\ last = NoTurn
    /\ fn \in {[op |-> "", arg |-> text, res |-> ""] : text \in IntentTexts}
    /\ script = 0
    /\ shared_collected = EmptyDict
    /\ pending = NoPending

\* detect_intent(text) on the text drawn
classify ==
    /\ fn.op = ""
    /\ fn' = [fn EXCEPT !.op = "detect_intent", !.res = detect_intent(fn.arg)]
    /\ UNCHANGED <<store, google_tokens, redis_client, last, script, shared_collected, pending>>

NextIntent == classify

SpecIntent == InitIntent /\ [][NextIntent]_vars

\* the categories one of whose keywords occurs in the normalized text
Matching(text) ==
    {i \in Categories :
        \E k \in 1..Len(IntentPrecedence[i].keywords) :
            Contains(_norm(text), IntentPrecedence[i].keywords[k])}

\* C10: the intent of a text is the first category, in the order BOOK,
\* RESCHEDULE, FAQ_PRICES, FAQ_HOURS, FAQ_LOCATION, FAQ_INSURANCE,
\* FAQ_SERVICES, FAQ_CONDITIONS, FAQ_REFERRAL, FAQ_FIRST_VISIT, FAQ_POLICIES,
\* FAQ_PRIVACY, HUMAN, one of whose keywords occurs in the normalized text;
\* OTHER when none occurs; UNKNOWN for empty and whitespace-only text; a text
\* with a BOOK keyword and a FAQ_PRICES keyword is BOOK.
C10_IntentPrecedence ==
    fn.op = "detect_intent"
    => LET m == Matching(fn.arg)
       IN  /\ IF \A i \in 1..Len(fn.arg) : fn.arg[i] \in SpaceChars THEN fn.res = "UNKNOWN"
              ELSE IF m = {} THEN fn.res = "OTHER"
              ELSE \E i \in m : /\ \A j \in m : i <= j
                                /\ fn.res = IntentPrecedence[i].name
           /\ ({1, 3} \subseteq m => fn.res = "BOOK")

C10_Witness ==
    /\ fn.op = "detect_intent"
    /\ fn.arg = <<" "," ","H","O","W"," "," "," ","M","U","C","H"," "," "," ","t","o"," "," ","B","o","o","k"," ">>
    /\ {1, 3} \subseteq Matching(fn.arg)
    /\ fn.res = "BOOK"

\* ------------------------------------------------------------------------
\* The slot engine on its own: its inputs are drawn, then it is applied
\* ------------------------------------------------------------------------

U_Friday_afternoon == <<"F","r","i","d","a","y"," ","a","f","t","e","r","n","o","o","n"," ","p","l","e","a","s","e">>

\* the clock: Monday 08:10:30, Friday 17:10:00, Saturday 23:50:10,
\* Wednesday 11:52:00, Tuesday 09:30:20
SlotNows ==
    NowValues \cup {5 * SecondsPerDay + 23 * SecondsPerHour + 50 * SecondsPerMinute + 10,
                    2 * SecondsPerDay + 11 * SecondsPerHour + 52 * SecondsPerMinute,
                    1 * SecondsPerDay + 9 * SecondsPerHour + 30 * SecondsPerMinute + 20}

SlotDurations == {15, 30, 45}

\* (day_start_h, day_end_h): the clinic's hours, the three preferences, a
\* long day and a day that ends before it starts
SlotHours == {<<9, 18>>, <<9, 12>>, <<12, 17>>, <<17, 20>>, <<0, 23>>, <<18, 9>>}

SlotPrefs == {<<>>, U_morning, U_Friday_afternoon, U_evening, U_next_week}

\* a busy block from from_h:00 to to_h:00 on each day the window can touch
DailyBusy(from_h, to_h) ==
    [d \in 1..13 |-> BusyBlock((d - 1) * SecondsPerDay + from_h * SecondsPerHour,
                               (d - 1) * SecondsPerDay + to_h * SecondsPerHour)] \o <<>>

\* what the calendar reports busy: BusyConfigs; Monday 09:15 to 09:45; the
\* mornings; the afternoons; the evenings from 17:00; the clinic's hours
SlotBusy ==
    BusyConfigs \cup
    {<<BusyBlock(9 * SecondsPerHour + 15 * SecondsPerMinute,
                 9 * SecondsPerHour + 45 * SecondsPerMinute)>>,
     DailyBusy(0, 12), DailyBusy(12, 17), DailyBusy(17, 24), DailyBusy(9, 18)}

GenInputs ==
    {[apply |-> "generate_candidate_slots", now |-> n, duration |-> d, hours |-> h,
      pref |-> <<>>, busy |-> <<>>] :
        n \in SlotNows, d \in SlotDurations, h \in SlotHours}

\* duration 0 is the duration_min left out (None)
SugInputs ==
    {[apply |-> "suggest_top_slots", now |-> n, duration |-> d, hours |-> <<9, 18>>,
      pref |-> p, busy |-> b] :
        n \in SlotNows, d \in {0, 45}, p \in SlotPrefs, b \in SlotBusy}

\* the candidates of the clinic's hours against each calendar
FilterInputs ==
    {[apply |-> "filter_free_slots", now |-> n, duration |-> d, hours |-> <<9, 18>>,
      pref |-> <<>>, busy |-> b] :
        n \in SlotNows, d \in {15, 30}, b \in SlotBusy}

InitSlots ==
    /\ store = [c \in Calls \ {""} |-> None]
    /\ google_tokens = Some("tokens")
    /\ redis_client = TRUE
    /\ last = NoTurn
    /\ fn \in {[op |-> "", arg |-> a, res |-> ""] : a \in GenInputs \cup SugInputs \cup FilterInputs}
    /\ script = 0
    /\ shared_collected = EmptyDict
    /\ pending = NoPending

\* generate_candidate_slots on the window of the clock drawn
generate ==
    /\ fn.op = ""
    /\ fn.arg.apply = "generate_candidate_slots"
    /\ fn' = [fn EXCEPT !.op = "generate_candidate_slots",
                        !.res = generate_candidate_slots(next_7_days_window(fn.arg.now)[1],
                                                         next_7_days_window(fn.arg.now)[2],
                                                         fn.arg.duration,
                                                         fn.arg.hours[1], fn.arg.hours[2])]
    /\ UNCHANGED <<store, google_tokens, redis_client, last, script, shared_collected, pending>>

\* suggest_top_slots for the demo clinic with the clock and the calendar drawn
suggest ==
    /\ fn.op = ""
    /\ fn.arg.apply = "suggest_top_slots"
    /\ fn' = [fn EXCEPT !.op = "suggest_top_slots",
                        !.res = suggest_top_slots(DEFAULT_SESSION, fn.arg.duration, fn.arg.pref,
                                                  [IdleEnv EXCEPT !.now = fn.arg.now,
                                                                  !.busy = fn.arg.busy])]
    /\ UNCHANGED <<store, google_tokens, redis_client, last, script, shared_collected, pending>>

\* the candidates the input stands for
CandidatesOf(arg) ==
    generate_candidate_slots(next_7_days_window(arg.now)[1], next_7_days_window(arg.now)[2],
                             arg.duration, arg.hours[1], arg.hours[2])

\* filter_free_slots on the candidates and the parsed busy blocks drawn
filter ==
    /\ fn.op = ""
    /\ fn.arg.apply = "filter_free_slots"
    /\ fn' = [fn EXCEPT !.op = "filter_free_slots",
                        !.res = filter_free_slots(CandidatesOf(fn.arg), parse_busy(fn.arg.busy))]
    /\ UNCHANGED <<store, google_tokens, redis_client, last, script, shared_collected, pending>>

NextSlots == generate \/ suggest \/ filter

SpecSlots == InitSlots /\ [][NextSlots]_vars

\* C11: no slot the availability engine returns overlaps a busy block of the
\* calendar: for every returned slot s and every busy block b,
\* max(s.start, b.start) < min(s.end, b.end) is false, whether the slots
\* come from the pass over the preferred hours or from the fallback pass.
C11_NoReturnedSlotOverlapsBusy ==
    fn.op = "suggest_top_slots"
    => \A i \in 1..Len(fn.res.raw_slots) : \A j \in 1..Len(fn.arg.busy) :
          LET s == fn.res.raw_slots[i]
              b == fn.arg.busy[j]
          IN  {"start", "end"} \subseteq DOMAIN b
              => ~ (Max(fromisoformat(s.start), fromisoformat(b.start))
                      < Min(fromisoformat(s.end), fromisoformat(b.end)))

\* the fallback pass returned three slots of which the first starts when a
\* busy block ends
C11_Witness ==
    /\ fn.op = "suggest_top_slots"
    /\ fn.arg.pref = U_morning
    /\ fn.arg.busy = DailyBusy(0, 12)
    /\ fn.res.passes = 2
    /\ Len(fn.res.raw_slots) = 3
    /\ \E j \in 1..Len(fn.arg.busy) : fn.arg.busy[j].end = fn.res.raw_slots[1].start

\* C12: every slot that slot generation produces starts on a day Monday to
\* Friday and lies inside the working day: its start is not before
\* dayStartHour:00 and its end, start plus duration, not after dayEndHour:00
\* of the same day, for every window, duration and pair of hours.
C12_SlotsInsideWorkingDay ==
    fn.op = "generate_candidate_slots"
    => \A i \in 1..Len(fn.res) :
          LET start == fn.res[i][1]
              end == fn.res[i][2]
              midnight == (start \div (24 * 3600)) * (24 * 3600)
          IN  /\ (start \div (24 * 3600)) % 7 \notin {5, 6}
              /\ start >= midnight + fn.arg.hours[1] * 3600
              /\ end <= midnight + fn.arg.hours[2] * 3600
              /\ end = start + fn.arg.duration * 60

\* from Friday 17:10 the first slot is Friday 17:30 to 18:00 and the second
\* starts on the Monday after at 09:00
C12_Witness ==
    /\ fn.op = "generate_candidate_slots"
    /\ fn.arg.hours = <<9, 18>>
    /\ fn.arg.duration = 30
    /\ Len(fn.res) > 1
    /\ fn.res[1] = <<4 * SecondsPerDay + 17 * SecondsPerHour + 30 * SecondsPerMinute,
                     4 * SecondsPerDay + 18 * SecondsPerHour>>
    /\ fn.res[2][1] = 7 * SecondsPerDay + 9 * SecondsPerHour

\* the hours the claim gives for the preferences drawn
ClaimedWindow(pref) ==
    IF pref = U_morning THEN Some(<<9, 12>>)
    ELSE IF pref = U_Friday_afternoon THEN Some(<<12, 17>>)
    ELSE IF pref = U_evening THEN Some(<<17, 20>>)
    ELSE None

\* the slots of a suggestion as (start, end) pairs
ReturnedSlots(res) ==
    [i \in 1..Len(res.raw_slots) |->
        <<fromisoformat(res.raw_slots[i].start), fromisoformat(res.raw_slots[i].end)>>] \o <<>>

\* C13: when the caller's preference (morning 9-12, afternoon 12-17, evening
\* 17-20) yields no free slot, the slots are generated again with the
\* clinic's default hours and filtered against the same busy blocks; no
\* slots found is reported only if that pass is empty too; without a
\* preference one pass is run; the calendar is asked once.
C13_TwoPassFallback ==
    fn.op = "suggest_top_slots"
    => LET w == <<fn.arg.now, fn.arg.now + 7 * SecondsPerDay>>
           duration == IF fn.arg.duration = 0 THEN 30 ELSE fn.arg.duration
           blocks == parse_busy(fn.arg.busy)
           win == ClaimedWindow(fn.arg.pref)
           preferred == top3_between(w, duration, The(win), blocks)
           default == top3_between(w, duration, clinic_default_hours(CLINICS["demo"]), blocks)
           one_pass(slots) ==
               /\ fn.res.passes = 1
               /\ ReturnedSlots(fn.res) = slots
               /\ (fn.res.err = Some(NO_SLOTS)) = (slots = <<>>)
       IN  /\ Len(fn.res.calls) = 1
           /\ IF win = None THEN one_pass(default)
              ELSE IF preferred # <<>> THEN one_pass(preferred)
              ELSE /\ fn.res.passes = 2
                   /\ ReturnedSlots(fn.res) = default
                   /\ (fn.res.err = Some(NO_SLOTS)) = (default = <<>>)

\* the mornings are busy: the pass over 9-12 finds nothing and the second
\* pass returns slots that start at 12:00 or later
C13_Witness ==
    /\ fn.op = "suggest_top_slots"
    /\ fn.arg.pref = U_morning
    /\ fn.arg.busy = DailyBusy(0, 12)
    /\ fn.res.passes = 2
    /\ fn.res.err = None
    /\ \A i \in 1..Len(fn.res.raw_slots) : fn.res.raw_slots[i].start.hour >= 12

\* ------------------------------------------------------------------------
\* Appointment lookup
\* ------------------------------------------------------------------------

\* the digits of the phone number the session collected
CollectedPhone(s) == DictGet(DictGet(s, "collected", EmptyDict), "phone", <<>>)

\* the upcoming events whose description holds these digits
MatchingEvents(s, events) ==
    {i \in 1..Len(events) :
        /\ "description" \in DOMAIN events[i]
        /\ Contains(_digits_only(events[i].description), CollectedPhone(s))}

\* the event a later confirmation would patch or delete
EventUnderChange(s) == DictGet(s, "resch_event_id", None)

\* the turn listed the upcoming events and got an answer
LookedUp ==
    /\ Turned
    /\ last.state = RESCH_FIND
    /\ ~ last.raised
    /\ \E i \in 1..Len(last.calls) : last.calls[i].op = "list_upcoming_events"

LookupMiss == LookedUp /\ MatchingEvents(before, last.env.events) = {}

LookupHit == LookedUp /\ MatchingEvents(before, last.env.events) # {}

\* C14: when the lookup of RESCH_FIND finds no upcoming event whose
\* description holds the caller's phone digits, the reply is the guidance
\* that no matching appointment was found, the state is TRIAGE, no event is
\* under change and the turn sends no patch or delete; a turn sends a patch
\* or delete only for a session with an event under change, and a session
\* gets an event under change only by a lookup that succeeds.
C14_LookupMiss ==
    /\ LookupMiss
        => /\ last.reply = "I couldn't find a matching appointment in the next 30 days. For the demo, please book first and then try reschedule."
           /\ DictGet(after, "state", TRIAGE) = TRIAGE
           /\ EventUnderChange(after) = None
           /\ Mutations(last.calls) = <<>>
    /\ (Turned /\ \E i \in 1..Len(last.calls) :
                     last.calls[i].op \in {"patch_event_time", "delete_event"})
        => EventUnderChange(before) # None
    /\ (Turned /\ ~ last.raised /\ EventUnderChange(after) # None
               /\ EventUnderChange(before) = None)
        => /\ LookupHit
           /\ \E i \in MatchingEvents(before, last.env.events) :
                  /\ \A j \in MatchingEvents(before, last.env.events) : i <= j
                  /\ EventUnderChange(after) = last.env.events[i].id

\* the calendar holds three upcoming events, none with the caller's digits
C14_Witness ==
    /\ LookupMiss
    /\ Len(last.env.events) = 3
    /\ DictGet(after, "state", TRIAGE) = TRIAGE

\* ------------------------------------------------------------------------
\* Offered and selected slots
\* ------------------------------------------------------------------------

OfferedSlots(s) == DictGet(s, LAST_OFFERED_SLOTS_KEY, None)

SelectedSlot(s) == DictGet(s, SELECTED_SLOT_KEY, None)

\* the selected slot, if any, is one of the offered slots, which are at most three
SelectionOffered(s) ==
    /\ SelectedSlot(s) # None
        => /\ OfferedSlots(s) # None
           /\ \E i \in 1..Len(The(OfferedSlots(s))) : The(OfferedSlots(s))[i] = The(SelectedSlot(s))
    /\ OfferedSlots(s) # None => Len(The(OfferedSlots(s))) <= 3

\* C15: in every session a call can load, and in every session a turn
\* returns, a selected slot is an element of the offered slots of that
\* session (no selection outlives a change or the clearing of the offered
\* slots) and at most three slots are offered.
C15_SelectionAmongOffered ==
    /\ \A c \in Calls : SelectionOffered(Session(c))
    /\ (Turned /\ ~ last.raised) => SelectionOffered(after)

\* a stored session whose selected slot is the second of three offered slots
C15_Witness ==
    \E c \in Calls :
        /\ SelectedSlot(Session(c)) # None
        /\ Len(The(OfferedSlots(Session(c)))) = 3
        /\ The(OfferedSlots(Session(c)))[2] = The(SelectedSlot(Session(c)))
        /\ The(OfferedSlots(Session(c)))[1] # The(SelectedSlot(Session(c)))

\* ------------------------------------------------------------------------
\* Turns that raise
\* ------------------------------------------------------------------------

\* the states triage.py declares
DeclaredStates ==
    {TRIAGE, BOOK_PATIENT_TYPE, BOOK_NAME, BOOK_PHONE, BOOK_REASON, BOOK_TIME_PREF,
     BOOK_OFFER_SLOTS, BOOK_PICK_SLOT, BOOK_CONFIRM_SLOT, RESCH_CHOICE, RESCH_NAME,
     RESCH_PHONE, RESCH_FIND, RESCH_OFFER_SLOTS, RESCH_PICK_SLOT, RESCH_CONFIRM, CANCEL_CONFIRM}

\* C16: no turn raises: in every state, for every utterance and every
\* outcome of the credential store and the calendar (no credential, a
\* failing request, no free slot, one, two, three or more, no matching
\* event) the turn returns a reply and a session whose state is a declared
\* state; the OFFER_SLOTS states do so when one or two free slots are found.
C16_NoTurnRaises ==
    Turned
    => /\ ~ last.raised
       /\ last.reply # ""
       /\ DictGet(after, "state", TRIAGE) \in DeclaredStates

\* ------------------------------------------------------------------------
\* Requests in flight.  POST /twilio/turn awaits get_session, then
\* triage_turn, then save_session; another request can run between them.
\* ------------------------------------------------------------------------

\* the request read CallSid and SpeechResult and loaded the session
load(request, call_sid, speech) ==
    /\ pending[request] = None
    /\ pending' = [pending EXCEPT ![request] =
                      Some([call |-> call_sid, said |-> Strip(speech),
                            fresh |-> is_default_copy(call_sid),
                            session |-> get_session(call_sid)])]
    /\ last' = NoTurn
    /\ UNCHANGED <<store, google_tokens, redis_client, fn, script, shared_collected>>

\* the session a request holds: a copy of DEFAULT_SESSION shares its
\* "collected" with DEFAULT_SESSION for as long as it is held
loaded_session(p) ==
    IF p.fresh THEN DictSet(p.session, "collected", shared_collected) ELSE p.session

\* the calendar of a quiet week: every request answered, nothing busy, the
\* clock on Monday morning, at most one upcoming event
QuietEnvs(state) ==
    {e \in Envs(state) :
        e.api = "ok" /\ e.busy = <<>> /\ e.now < SecondsPerDay /\ Len(e.events) <= 1}

\* triage_turn runs on the session the request loaded, then the session is saved
answer_as(p) ==
    \E env \in QuietEnvs(DictGet(loaded_session(p), "state", TRIAGE)) :
        run_session(p.call, p.said, env, loaded_session(p), p.fresh)

answer(request) ==
    /\ pending[request] # None
    /\ answer_as(The(pending[request]))
    /\ pending' = [pending EXCEPT ![request] = None]
    /\ UNCHANGED script

\* what the caller says in a state: one or two answers that the step accepts
RaceUtterances(state) == CoreUtterances(state) \ {U_empty, U_blank, U_123}

NextRace ==
    \/ \E r \in Requests : \E c \in Calls :
           \E u \in RaceUtterances(DictGet(get_session(c), "state", TRIAGE)) : load(r, c, u)
    \/ \E r \in Requests : answer(r)
    \/ google_callback

SpecRace == Init /\ [][NextRace]_vars

\* C17: the load, run and save of a turn never interleave with another turn
\* of the same call, so that concurrent turns of a call behave as some
\* serial order of them: every turn runs on the session that is stored for
\* its call when it answers (no update is lost, one confirmation in
\* BOOK_CONFIRM_SLOT does not send two create requests).
C17_TurnsOfACallAreSerial ==
    [][last'.before # None => The(last'.before) = get_session(last'.call)]_vars

\* ------------------------------------------------------------------------
\* Several calls at once
\* ------------------------------------------------------------------------

\* two calls and a request without CallSid
Callers == {"", "CA1", "CA2"}

InitCalls ==
    /\ store = [c \in Callers \ {""} |-> None]
    /\ google_tokens = None
    /\ redis_client \in BOOLEAN
    /\ last = NoTurn
    /\ fn = NoFn
    /\ script = 0
    /\ shared_collected = EmptyDict
    /\ pending = NoPending

\* a text that json.loads rejects
NOT_JSON == <<"{">>

\* the session's Redis key holds a text that is not JSON
session_unparsable(call_sid) ==
    /\ redis_client
    /\ store[call_sid] # Some(NOT_JSON)
    /\ store' = [store EXCEPT ![call_sid] = Some(NOT_JSON)]
    /\ last' = NoTurn
    /\ UNCHANGED <<google_tokens, redis_client, fn, script, shared_collected, pending>>

\* a caller who books, gives the patient type and the name, then starts over
CallerUtterances(state) ==
    IF state = TRIAGE THEN {U_book}
    ELSE IF state = BOOK_PATIENT_TYPE THEN {U_new_patient}
    ELSE IF state = BOOK_NAME THEN {U_Jane_Doe}
    ELSE {U_start_over}

NextCalls ==
    \/ \E r \in Requests : \E c \in Callers :
           \E u \in CallerUtterances(DictGet(get_session(c), "state", TRIAGE)) : load(r, c, u)
    \/ \E r \in Requests : answer(r)
    \/ google_callback
    \/ \E c \in Callers \ {""} : session_expire(c)
    \/ \E c \in Callers \ {""} : session_unparsable(c)

SpecCalls == InitCalls /\ [][NextCalls]_vars

\* C18: a turn of one call never changes the session that another call
\* loads, nor the session a request of another call holds, whatever the
\* interleaving of the requests; what the calls share is the clinic
\* registry, which no turn writes, and the calendar credential.
C18_CrossCallIsolation ==
    [][last'.before # None
       => /\ \A b \in Callers \ {last'.call} : get_session(b)' = get_session(b)
          /\ \A r \in Requests :
                (pending[r] # None /\ pending'[r] # None /\ The(pending[r]).call # last'.call)
                => /\ pending'[r] = pending[r]
                   /\ loaded_session(The(pending[r]))' = loaded_session(The(pending[r]))
          /\ google_tokens' = google_tokens]_vars

\* a turn of CA1 stored BOOK_NAME while the stored session of CA2 is in
\* BOOK_PATIENT_TYPE and a request of CA2 holds its session
C18_Witness ==
    /\ Turned
    /\ last.call = "CA1"
    /\ DictGet(Session("CA1"), "state", TRIAGE) = BOOK_NAME
    /\ DictGet(Session("CA2"), "state", TRIAGE) = BOOK_PATIENT_TYPE
    /\ \E r \in Requests : pending[r] # None /\ The(pending[r]).call = "CA2"

\* the stored session of the call is missing (never stored, or expired) or
\* is not JSON
NothingToLoad(c) ==
    \/ c = ""
    \/ ~ redis_client
    \/ store[c] = None
    \/ The(store[c]) = NOT_JSON

\* C19: a session that is missing, expired or unparsable in the store is
\* loaded as a fresh session, never as an error: state TRIAGE, intent null,
\* nothing collected, whatever turns of this call or of other calls were
\* processed before (no turn alters the default session value).
C19_FreshSession ==
    /\ \A c \in Callers :
          NothingToLoad(c)
          => get_session(c) = [intent |-> None, state |-> "TRIAGE", collected |-> EmptyDict]
    /\ DEFAULT_SESSION_copy = [intent |-> None, state |-> "TRIAGE", collected |-> EmptyDict]

\* the session of CA1 is not JSON and that of CA2 has expired, after a turn
\* of the request without CallSid started a booking on a fresh session
C19_Witness ==
    /\ redis_client
    /\ store["CA1"] = Some(NOT_JSON)
    /\ store["CA2"] = None
    /\ Turned
    /\ last.call = ""
    /\ DictGet(after, "state", TRIAGE) = BOOK_PATIENT_TYPE
    /\ get_session("CA1") = get_session("CA2")

\* ------------------------------------------------------------------------
\* A caller who keeps answering
\* ------------------------------------------------------------------------

\* the answers the step of a state accepts: a valid phone number in the
\* phone states, a digit of an offered slot in the pick states, yes or no in
\* the confirm states, an answer of the caller elsewhere
AcceptedUtterances(state) ==
    RaceUtterances(state) \cup (IF state \in ConfirmStates THEN {U_no} ELSE {})

\* the calendar on a Monday morning: answering or failing, with every busy
\* configuration, with no upcoming event or one
MondayEnvs(state) == {e \in Envs(state) : e.now < SecondsPerDay /\ Len(e.events) <= 1}

\* POST /twilio/turn with an answer the current step accepts
accepted_turn(call_sid) ==
    /\ \E u \in AcceptedUtterances(DictGet(get_session(call_sid), "state", TRIAGE)) :
           \E env \in MondayEnvs(DictGet(get_session(call_sid), "state", TRIAGE)) :
               run_turn(call_sid, Strip(u), env)
    /\ UNCHANGED <<script, pending>>

NextLive ==
    \/ \E c \in Calls : accepted_turn(c)
    \/ google_callback
    \/ tokens_expire
    \/ \E c \in Calls \ {""} : session_expire(c)

\* the caller never stops answering
SpecLive == Init /\ [][NextLive]_vars /\ \A c \in Calls : WF_vars(accepted_turn(c))

\* the state of the session stored for the call
StateOf(c) == DictGet(Session(c), "state", TRIAGE)

\* how many accepted answers a session in this state is away from TRIAGE at most
TurnsToTriage(state) ==
    IF state = TRIAGE THEN 0
    ELSE IF state \in ConfirmStates THEN 1
    ELSE IF state \in PickStates THEN 2
    ELSE IF state \in {BOOK_OFFER_SLOTS, RESCH_OFFER_SLOTS} THEN 3
    ELSE IF state \in {BOOK_TIME_PREF, RESCH_FIND} THEN 4
    ELSE IF state \in {BOOK_REASON, RESCH_PHONE} THEN 5
    ELSE IF state \in {BOOK_PHONE, RESCH_NAME} THEN 6
    ELSE IF state \in {BOOK_NAME, RESCH_CHOICE} THEN 7
    ELSE 8

CollectedOf(s) == DictGet(s, "collected", EmptyDict)

\* the turn took the session out of a flow, back to TRIAGE
FlowExit ==
    /\ Turned
    /\ ~ last.raised
    /\ last.state # TRIAGE
    /\ DictGet(after, "state", TRIAGE) = TRIAGE

\* the exits by restart, by a declined confirmation and by a mutation sent
ClearingExit ==
    \/ Said \in RestartCommands
    \/ last.state \in ConfirmStates /\ Said \notin Affirmative
    \/ Mutations(last.calls) # <<>>

\* the turn took the session from TRIAGE into a flow
FlowEntry ==
    /\ Turned
    /\ ~ last.raised
    /\ last.state = TRIAGE
    /\ DictGet(after, "state", TRIAGE) # TRIAGE

\* C21: whenever a turn moves the state from a booking, reschedule or cancel
\* sub-state to TRIAGE (completion, decline, restart, offline credential, no
\* slots found, lookup miss), collected is empty afterwards.
C21_CollectedClearedOnExit == FlowExit => CollectedOf(after) = EmptyDict

\* C21, amended: a turn that leaves a flow by restart, by a declined
\* confirmation or after sending its mutation request empties collected;
\* every other exit to TRIAGE (offline credential, no slots found, lookup
\* miss, nothing selected) leaves collected as it was; and a turn that
\* enters a flow from TRIAGE starts it with collected empty.
C21_CollectedClearedOnClearingExit ==
    /\ FlowExit => CollectedOf(after) = (IF ClearingExit THEN EmptyDict ELSE CollectedOf(before))
    /\ FlowEntry => CollectedOf(after) = EmptyDict

\* a booking flow given up for want of free slots, the caller's answers kept
C21_Witness ==
    /\ FlowExit
    /\ ~ ClearingExit
    /\ last.state = BOOK_OFFER_SLOTS
    /\ last.reply = NO_SLOTS
    /\ "phone" \in DOMAIN CollectedOf(after)
    /\ CollectedOf(after) = CollectedOf(before)

\* ------------------------------------------------------------------------
\* The OFFER steps
\* ------------------------------------------------------------------------

OfferStates == {BOOK_OFFER_SLOTS, RESCH_OFFER_SLOTS}

PickStateOf(state) == IF state = BOOK_OFFER_SLOTS THEN BOOK_PICK_SLOT ELSE RESCH_PICK_SLOT

\* the turn was the OFFER step of its state: not silence, not a restart
OfferTurn ==
    /\ Turned
    /\ last.state \in OfferStates
    /\ last.said # <<>>
    /\ Said \notin RestartCommands

\* what the availability engine answers the turn just run
EngineAnswer ==
    suggest_top_slots(before,
                      DictGet(get_clinic(before), "slot_minutes", DEFAULT_DURATION_MIN),
                      IF last.state = BOOK_OFFER_SLOTS
                      THEN DictGet(CollectedOf(before), "time_pref", <<>>) ELSE <<>>,
                      last.env)

\* the session after an OFFER turn for which the engine answered got
OfferedAsAnswered(got) ==
    /\ ~ last.raised
    /\ IF got.raw_slots = <<>>
       THEN /\ after.state = TRIAGE
            /\ last.reply \in {OFFLINE, NO_SLOTS}
            /\ DictGet(after, LAST_OFFERED_SLOTS_KEY, None) = DictGet(before, LAST_OFFERED_SLOTS_KEY, None)
            /\ DictGet(after, SELECTED_SLOT_KEY, None) = DictGet(before, SELECTED_SLOT_KEY, None)
            /\ CollectedOf(after) = CollectedOf(before)
       ELSE /\ after.state = PickStateOf(last.state)
            /\ DictGet(after, LAST_OFFERED_SLOTS_KEY, None) = Some(got.raw_slots)
            /\ Len(got.raw_slots) <= 3

\* C22: in BOOK_OFFER_SLOTS and RESCH_OFFER_SLOTS the turn asks the
\* availability engine; when the engine reports no free slot (after the
\* fallback) or an offline calendar, the state becomes TRIAGE with an apology
\* and last_offered_slots, selected_slot and collected are left as they were;
\* otherwise last_offered_slots is set to the returned slots (at most 3) and
\* the state advances to BOOK_PICK_SLOT or RESCH_PICK_SLOT respectively.
C22_OfferStep == OfferTurn => OfferedAsAnswered(EngineAnswer)

\* ------------------------------------------------------------------------
\* The grid of candidate slots
\* ------------------------------------------------------------------------

Generated == fn.op = "generate_candidate_slots"

\* C23: slot generation respects the window at both ends: every generated
\* slot starts at or after window_start, also when window_start has seconds
\* that are not zero, and ends at or before window_end; the slots lie on one
\* grid whose points differ by duration_min minutes, each slot one step long.
C23_SlotsInsideWindow ==
    Generated
    => LET w == next_7_days_window(fn.arg.now)
           step == fn.arg.duration * SecondsPerMinute
       IN  \A i \in 1..Len(fn.res) :
              /\ fn.res[i][1] >= w[1]
              /\ fn.res[i][2] <= w[2]
              /\ fn.res[i][2] - fn.res[i][1] = step
              /\ (fn.res[i][1] - fn.res[1][1]) % step = 0

\* ------------------------------------------------------------------------
\* Filtering of the candidates
\* ------------------------------------------------------------------------

Filtered == fn.op = "filter_free_slots"

SeqRange(q) == {q[i] : i \in 1..Len(q)}

\* max(slot.start, busy.start) < min(slot.end, busy.end) for some busy block
HitsBusy(slot, blocks) ==
    \E b \in SeqRange(blocks) :
        (IF slot[1] >= b[1] THEN slot[1] ELSE b[1]) < (IF slot[2] <= b[2] THEN slot[2] ELSE b[2])

\* the slot ends where a busy block starts, or starts where one ends
Abuts(slot, blocks) == \E b \in SeqRange(blocks) : slot[2] = b[1] \/ slot[1] = b[2]

\* what the claim C24 says of the candidates cands filtered against blocks
FilteredHalfOpen(cands, blocks) ==
    /\ SeqRange(fn.res) = {c \in SeqRange(cands) : ~ HitsBusy(c, blocks)}
    /\ \A c \in SeqRange(cands) :
          (Abuts(c, blocks) /\ ~ \E b \in SeqRange(blocks) : b[1] < c[2] /\ c[1] < b[2])
          => c \in SeqRange(fn.res)
    /\ blocks = <<>> => fn.res = cands

\* C24: half-open overlap in filtering: a candidate slot is removed iff
\* max(slot.start, busy.start) < min(slot.end, busy.end) for some busy block;
\* a slot that only touches busy blocks, its end at a block's start or its
\* start at a block's end, is kept, and with no busy block every candidate is
\* kept.
C24_HalfOpenFiltering ==
    Filtered => FilteredHalfOpen(CandidatesOf(fn.arg), parse_busy(fn.arg.busy))

\* Monday 09:15 to 09:45 is busy: of the quarter-hour candidates, 09:00 and
\* 09:45 touch the block and are kept, 09:15 and 09:30 are removed
C24_Witness ==
    /\ Filtered
    /\ fn.arg.duration = 15
    /\ fn.arg.busy = <<BusyBlock(9 * SecondsPerHour + 15 * SecondsPerMinute,
                                 9 * SecondsPerHour + 45 * SecondsPerMinute)>>
    /\ Len(fn.res) >= 3
    /\ fn.res[1] = <<9 * SecondsPerHour, 9 * SecondsPerHour + 15 * SecondsPerMinute>>
    /\ fn.res[2] = <<9 * SecondsPerHour + 45 * SecondsPerMinute, 10 * SecondsPerHour>>

\* ------------------------------------------------------------------------
\* The order of the slots
\* ------------------------------------------------------------------------

Suggested == fn.op = "suggest_top_slots"

\* each slot starts later than the one before it
Chronological(slots) == \A i \in 1..Len(slots) : i > 1 => slots[i - 1][1] < slots[i][1]

\* the hours of the pass that produced the suggestion
PassHours(arg, res) ==
    IF res.passes = 2 \/ ClaimedWindow(arg.pref) = None
    THEN clinic_default_hours(CLINICS["demo"])
    ELSE The(ClaimedWindow(arg.pref))

\* the free slots of the pass that produced the suggestion
FreeOf(arg, res) ==
    LET duration == IF arg.duration = 0 THEN 30 ELSE arg.duration
        cands == CandidatesOf([arg EXCEPT !.duration = duration, !.hours = PassHours(arg, res)])
        blocks == parse_busy(arg.busy)
    IN  {c \in SeqRange(cands) : ~ HitsBusy(c, blocks)}

\* ret holds the earliest min(3, number of free slots) slots of free, in order,
\* and labels names them in the same order
EarliestOf(ret, labels, free) ==
    /\ Len(ret) = (IF Cardinality(free) < 3 THEN Cardinality(free) ELSE 3)
    /\ Chronological(ret)
    /\ SeqRange(ret) \subseteq free
    /\ \A c \in free \ SeqRange(ret) : \A r \in SeqRange(ret) : r[1] < c[1]
    /\ Len(labels) = Len(ret)
    /\ \A i \in 1..Len(ret) : labels[i] = format_slot(ret[i])

DayNames == <<"mon", "tue", "wed", "thu", "fri", "sat", "sun">>

\* the slot (ISO start and end) lies inside the hours the clinic works on
\* the slot's day
InsideWorkingHours(slot, clinic) ==
    LET start == fromisoformat(slot.start)
        end == fromisoformat(slot.end)
        midnight == (start \div SecondsPerDay) * SecondsPerDay
        hours == clinic.working_hours[DayNames[((start \div SecondsPerDay) % 7) + 1]]
    IN  /\ hours # None
        /\ start >= midnight + The(hours)[1] * SecondsPerHour
        /\ end <= midnight + The(hours)[2] * SecondsPerHour

\* the turn offered slots to the caller
OfferMade ==
    /\ OfferTurn
    /\ ~ last.raised
    /\ after.state \in PickStates

\* C26: every slot offered to a caller lies on a weekday within the clinic's
\* configured working hours, for every time-of-day preference the caller
\* gives, "evening" (17-20) for a clinic that closes at 18:00 included.
C26_OfferedInsideWorkingHours ==
    OfferMade
    => \A i \in 1..Len(The(OfferedSlots(after))) :
          InsideWorkingHours(The(OfferedSlots(after))[i], get_clinic(after))

\* ------------------------------------------------------------------------
\* The lookup as a function, and the turns that use it
\* ------------------------------------------------------------------------

\* the phone numbers looked up: none, a text without digits, the caller's,
\* the caller's as spoken, one of fifteen digits, one no event holds
LookupPhones ==
    {<<>>, <<"n","o","n","e">>, U_phone11, U_phone11_spoken, U_phone15,
     <<"0","7","0","0","0","0","0","0","0","0","0">>}

\* the calendars looked into: EventConfigs, and one where two events hold
\* the caller's number, after one without description
LookupEvents ==
    EventConfigs \cup
    {<<[id |-> Some("evt2"), summary |-> <<"S","t","a","f","f"," ","m","e","e","t","i","n","g">>],
       CalEvent("evt5", <<"J","a","n","e"," ","D","o","e"," ","-"," ","k","n","e","e">>, <<"P","h","o","n","e",":"," ","0","7","1","2","3","4","5","6","7","8","9">>),
       CalEvent("evt1", <<"J","a","n","e"," ","D","o","e"," ","-"," ","b","a","c","k"," ","p","a","i","n">>, <<"P","h","o","n","e",":"," ","0","7","1","2","3","4","5","6","7","8","9","\n","R","e","a","s","o","n",":"," ","b","a","c","k"," ","p","a","i","n">>)>>}

\* no function is drawn: the behaviour is one of turns
NoLookup == [apply |-> "turns", phone |-> <<>>, events |-> <<>>]

LookupInputs ==
    {[apply |-> "find_event_for_patient", phone |-> p, events |-> e] :
        p \in LookupPhones, e \in LookupEvents}

InitLookup ==
    /\ store = [c \in Calls \ {""} |-> None]
    /\ google_tokens \in {None, Some("tokens")}
    /\ redis_client = TRUE
    /\ last = NoTurn
    /\ fn \in {[op |-> "", arg |-> a, res |-> ""] : a \in LookupInputs \cup {NoLookup}}
    /\ script = 0
    /\ shared_collected = EmptyDict
    /\ pending = NoPending

\* find_event_for_patient for the demo clinic on the phone and calendar drawn
find ==
    /\ fn.op = ""
    /\ fn.arg.apply = "find_event_for_patient"
    /\ fn' = [fn EXCEPT !.op = "find_event_for_patient",
                        !.res = find_event_for_patient(DEFAULT_SESSION, fn.arg.phone,
                                                       [IdleEnv EXCEPT !.events = fn.arg.events])]
    /\ UNCHANGED <<store, google_tokens, redis_client, last, script, shared_collected, pending>>

NextLookup ==
    \/ find
    \/ fn.arg.apply = "turns" /\ Next

SpecLookup == InitLookup /\ [][NextLookup]_vars

Found == fn.op = "find_event_for_patient"

\* the digits of a text, in order
DigitsIn(text) == SelectSeq(text, LAMBDA c : c \in {"0","1","2","3","4","5","6","7","8","9"})

\* the positions of the events whose description's digits hold these digits
Holding(events, digits) ==
    {i \in 1..Len(events) :
        /\ "description" \in DOMAIN events[i]
        /\ \E k \in 0..Len(DigitsIn(events[i].description)) :
              k + Len(digits) <= Len(DigitsIn(events[i].description))
              /\ SubSeq(DigitsIn(events[i].description), k + 1, k + Len(digits)) = digits}

\* found is the first of the events at these positions, or None without any
FirstOf(found, events, positions) ==
    IF positions = {} THEN found = None
    ELSE \E i \in positions : (\A j \in positions : i <= j) /\ found = Some(events[i])

\* C27: the reschedule lookup returns the first event, in the order of the
\* list of upcoming events (30 days), whose description's digits contain the
\* caller's normalized phone digits, and none when no event matches, when
\* the phone is empty or when the credential is absent; on a match
\* RESCH_FIND stores that event's id as the event under change and moves to
\* CANCEL_CONFIRM if the caller chose to cancel, else to RESCH_OFFER_SLOTS.
C27_LookupFirstMatch ==
    /\ Found
        => /\ ~ fn.res.raised
           /\ IF google_tokens = None \/ DigitsIn(fn.arg.phone) = <<>>
              THEN fn.res.found = None /\ fn.res.calls = <<>>
              ELSE /\ FirstOf(fn.res.found, fn.arg.events,
                              Holding(fn.arg.events, DigitsIn(fn.arg.phone)))
                   /\ Len(fn.res.calls) = 1
                   /\ fn.res.calls[1].op = "list_upcoming_events"
                   /\ fn.res.calls[1].days_ahead = 30
    /\ LookupHit
        => /\ FirstOf(Some([id |-> EventUnderChange(after)]),
                      [i \in 1..Len(last.env.events) |-> [id |-> last.env.events[i].id]],
                      Holding(last.env.events, DigitsIn(CollectedPhone(before))))
           /\ after.state = (IF DictGet(CollectedOf(before), "resch_action", "") = "CANCEL"
                             THEN CANCEL_CONFIRM ELSE RESCH_OFFER_SLOTS)

\* two events hold the caller's number: the earlier one in the list is returned
C27_Witness ==
    /\ Found
    /\ google_tokens # None
    /\ Cardinality(Holding(fn.arg.events, DigitsIn(fn.arg.phone))) = 2
    /\ fn.res.found # None
    /\ The(fn.res.found).id = Some("evt5")

\* ------------------------------------------------------------------------
\* From a booking to its lookup
\* ------------------------------------------------------------------------

\* the turn sent the request that creates the event of a booking
Booked ==
    /\ Turned
    /\ last.state = BOOK_CONFIRM_SLOT
    /\ Len(last.calls) = 1
    /\ last.calls[1].op = "create_event"

\* the event the calendar holds after the request
CreatedEvent(call) == CalEvent("created", call.summary, call.description)

\* the upcoming events once the booking is made: an event without
\* description, another caller's, the created one
CalendarWith(ev) ==
    <<[id |-> Some("evt2"), summary |-> <<"S","t","a","f","f"," ","m","e","e","t","i","n","g">>],
      CalEvent("evt3", <<"J","o","h","n"," ","R","o","e"," ","-"," ","k","n","e","e">>, <<"P","h","o","n","e",":"," ","0","7","9","9","9"," ","0","0","0","1","1","1">>),
      ev>>

\* a later lookup for the phone finds the event
LookupFinds(session, phone, ev) ==
    find_event_for_patient(session, phone,
                           [IdleEnv EXCEPT !.tokens = Some("tokens"),
                                           !.events = CalendarWith(ev)]).found = Some(ev)

\* text holds the value collected under the field, which is not empty
Embeds(text, collected, field) ==
    /\ field \in DOMAIN collected
    /\ collected[field] # <<>>
    /\ Contains(text, collected[field])

TriageTurn ==
    /\ Turned
    /\ last.state = TRIAGE
    /\ last.said # <<>>

\* the intent of the utterance of the turn
SaidIntent == detect_intent(last.said)

\* the sessions agree on every field but intent; a field that is absent
\* reads as None, as session.get reads it
SameButIntent(a, b) ==
    \A k \in (DOMAIN a \cup DOMAIN b) \ {"intent"} : DictGet(a, k, None) = DictGet(b, k, None)

\* the turn entered the flow that starts in this state, with nothing left
\* of an earlier flow
Entered(state) ==
    /\ after.state = state
    /\ CollectedOf(after) = EmptyDict
    /\ OfferedSlots(after) = None
    /\ SelectedSlot(after) = None
    /\ EventUnderChange(after) = None
    /\ after.intent = Some(SaidIntent)

\* the turn answered and left the session alone
Answered ==
    /\ after.state = TRIAGE
    /\ SameButIntent(before, after)
    /\ after.intent = Some(SaidIntent)

\* C29: in state TRIAGE the utterance is classified again: BOOK moves to
\* BOOK_PATIENT_TYPE and RESCHEDULE to RESCH_CHOICE, each with collected,
\* offered slots, selected slot and event under change cleared; an FAQ
\* intent, HUMAN, OTHER and UNKNOWN leave the state at TRIAGE and change
\* nothing in the session except the intent field; no calendar request is sent.
C29_TriageStep ==
    TriageTurn
    => /\ ~ last.raised
       /\ last.calls = <<>>
       /\ IF SaidIntent = "BOOK" THEN Entered(BOOK_PATIENT_TYPE)
          ELSE IF SaidIntent = "RESCHEDULE" THEN Entered(RESCH_CHOICE)
          ELSE Answered

\* C29, amended: as C29 for every utterance that is not a restart command;
\* "restart", "start over" or "reset" said in TRIAGE is not classified: the
\* state stays TRIAGE, the intent field is as before, and collected, offered
\* slots, selected slot and event under change are cleared.
C29_TriageStepOrRestart ==
    TriageTurn
    => /\ ~ last.raised
       /\ last.calls = <<>>
       /\ IF Said \in RestartCommands
          THEN Cleared(after) /\ DictGet(after, "intent", None) = DictGet(before, "intent", None)
          ELSE IF SaidIntent = "BOOK" THEN Entered(BOOK_PATIENT_TYPE)
          ELSE IF SaidIntent = "RESCHEDULE" THEN Entered(RESCH_CHOICE)
          ELSE Answered

\* a question about prices put to a session that came back to TRIAGE with
\* the answers of a flow given up: nothing but the intent changes
C29_Witness ==
    /\ TriageTurn
    /\ SaidIntent = "FAQ_PRICES"
    /\ Answered
    /\ "phone" \in DOMAIN CollectedOf(before)
    /\ before.intent = Some("BOOK")
    /\ after.intent = Some("FAQ_PRICES")

\* ------------------------------------------------------------------------
\* "repeat" and "say again"
\* ------------------------------------------------------------------------

U_Say_again == <<"S","a","y"," "," ","a","g","a","i","n">>

\* the answers the steps accept, and the wish to hear the prompt again:
\* "repeat" in every state, "Say  again" when a slot is to be picked
RepeatUtterances(state) ==
    AcceptedUtterances(state) \cup {U_repeat}
    \cup (IF state \in PickStates THEN {U_Say_again} ELSE {})

repeat_turn(call_sid) ==
    /\ \E u \in RepeatUtterances(DictGet(get_session(call_sid), "state", TRIAGE)) :
       \E env \in MondayEnvs(DictGet(get_session(call_sid), "state", TRIAGE)) :
           run_turn(call_sid, Strip(u), env)
    /\ UNCHANGED <<script, pending>>

NextRepeat ==
    \/ \E c \in Calls : repeat_turn(c)
    \/ google_callback
    \/ tokens_expire
    \/ \E c \in Calls \ {""} : session_expire(c)

SpecRepeat == Init /\ [][NextRepeat]_vars

RepeatWords == {<<"r","e","p","e","a","t">>, <<"s","a","y"," ","a","g","a","i","n">>}

RepeatTurn == Turned /\ Said \in RepeatWords

\* the two sessions agree on every field; an absent field reads as None
SameSession(a, b) ==
    \A k \in DOMAIN a \cup DOMAIN b : DictGet(a, k, None) = DictGet(b, k, None)

\* the pick prompt again, and nothing else
Repeated ==
    /\ ~ last.raised
    /\ last.reply = "Sure. Please say 1, 2, or 3."
    /\ last.calls = <<>>
    /\ SameSession(before, after)
    /\ SameSession(before, Session(last.call))

\* the field in which the step of a state stores the text it is given
FieldOf(state) ==
    IF state = BOOK_PATIENT_TYPE THEN "patient_type"
    ELSE IF state \in {BOOK_NAME, RESCH_NAME} THEN "name"
    ELSE IF state = BOOK_REASON THEN "reason"
    ELSE "time_pref"

\* what the step of the state does with a text that is no answer it knows
StepTook ==
    /\ last.reply # "Sure. Please say 1, 2, or 3."
    /\ IF last.state = TRIAGE THEN Answered /\ after.intent = Some("OTHER")
       ELSE IF last.state \in {BOOK_PATIENT_TYPE, BOOK_NAME, RESCH_NAME, BOOK_REASON, BOOK_TIME_PREF}
       THEN /\ after.state # last.state
            /\ CollectedOf(after) = DictSet(CollectedOf(before), FieldOf(last.state), last.said)
       ELSE IF last.state \in PhoneStates
       THEN /\ last.reply = "Sorry - I didn't catch a valid phone number. Please say the phone number again."
            /\ SameSession(before, after)
       ELSE IF last.state = RESCH_CHOICE
       THEN /\ after.state = RESCH_NAME
            /\ CollectedOf(after) = DictSet(CollectedOf(before), "resch_action", "RESCHEDULE")
       ELSE IF last.state \in ConfirmStates THEN Declined /\ last.calls = <<>>
       ELSE \* RESCH_FIND and the OFFER states do not look at the utterance
            /\ last.raised = triage_turn(U_Yes, before, last.env).raised
            /\ last.calls = triage_turn(U_Yes, before, last.env).calls
            /\ last.reply = triage_turn(U_Yes, before, last.env).reply
            /\ last.raised \/ after = triage_turn(U_Yes, before, last.env).session

\* C30: "repeat" or "say again" in BOOK_PICK_SLOT or RESCH_PICK_SLOT gives
\* the pick prompt again and leaves the whole session (state, collected,
\* last_offered_slots, selected_slot) unchanged; in every other state the
\* same utterance is handled by that state's own step.
C30_RepeatOnlyWhenPicking ==
    RepeatTurn => IF last.state \in PickStates THEN Repeated ELSE StepTook

\* "Say  again" to the three slots of a reschedule
C30_Witness ==
    /\ RepeatTurn
    /\ last.state = RESCH_PICK_SLOT
    /\ last.said = U_Say_again
    /\ Repeated
    /\ Len(The(OfferedSlots(after))) = 3
    /\ Session(last.call).state = RESCH_PICK_SLOT

\* ------------------------------------------------------------------------
\* Where calendar mutations come from
\* ------------------------------------------------------------------------

\* the turn sent a create, patch or delete request
Mutated == Turned /\ Mutations(last.calls) # <<>>

BookingStates ==
    {BOOK_PATIENT_TYPE, BOOK_NAME, BOOK_PHONE, BOOK_REASON, BOOK_TIME_PREF,
     BOOK_OFFER_SLOTS, BOOK_PICK_SLOT, BOOK_CONFIRM_SLOT}

\* the request uses the slot selected and the event under change of the
\* session the turn loaded
UsesSessionData(call, s) ==
    /\ call.op \in {"create_event", "patch_event_time"}
        => /\ SelectedSlot(s) # None
           /\ call.start = The(SelectedSlot(s)).start
           /\ call.end = The(SelectedSlot(s)).end
           /\ SelectionOffered(s)
    /\ call.op \in {"patch_event_time", "delete_event"}
        => /\ EventUnderChange(s) # None
           /\ call.event_id = The(EventUnderChange(s))

\* a flow starts with no offered slots, no selected slot and no event under change
StartsClean(s) ==
    /\ OfferedSlots(s) = None
    /\ SelectedSlot(s) = None
    /\ EventUnderChange(s) = None

\* a turn gives the session new offered slots only by the OFFER step, from
\* the engine's answer, a new selected slot only by the pick step, from the
\* slots offered, and a new event under change only by a lookup that hits
SetByOwnStep(got) ==
    /\ OfferedSlots(after) \notin {None, OfferedSlots(before)}
        => /\ last.state \in OfferStates
           /\ OfferedSlots(after) = Some(got.raw_slots)
    /\ SelectedSlot(after) \notin {None, SelectedSlot(before)}
        => /\ last.state \in PickStates
           /\ OfferedSlots(after) = OfferedSlots(before)
           /\ SelectionOffered(after)
    /\ EventUnderChange(after) \notin {None, EventUnderChange(before)}
        => /\ LookupHit
           /\ after.state \in {CANCEL_CONFIRM, RESCH_OFFER_SLOTS}

\* C32: the mutation of a confirmed flow applies to the data chosen in that
\* same flow: the created or patched event's start and end are those of the
\* selected slot, picked from the slots offered in this flow, and the
\* patched or deleted event is the one this flow's RESCH_FIND stored; what
\* an earlier flow left behind is cleared when a flow is entered and so is
\* never used, and no booking sub-state holds an event under change.
C32_MutationUsesThisFlowsData ==
    /\ Mutated => UsesSessionData(last.calls[1], before)
    /\ FlowEntry => StartsClean(after)
    /\ (Turned /\ ~ last.raised)
        => SetByOwnStep(IF last.state \in OfferStates THEN EngineAnswer ELSE [raw_slots |-> <<>>])
    /\ \A c \in Calls : StateOf(c) \in BookingStates => EventUnderChange(Session(c)) = None

\* a reschedule confirmed: the patch names the event found and the slot picked
C32_Witness ==
    /\ Mutated
    /\ last.state = RESCH_CONFIRM
    /\ last.calls[1].op = "patch_event_time"
    /\ last.calls[1].event_id = "evt4"
    /\ last.calls[1].start = The(OfferedSlots(before))[2].start
    /\ ~ last.raised
    /\ StartsClean(after)

\* ------------------------------------------------------------------------
\* Two callers and one calendar
\* ------------------------------------------------------------------------

NextTwoCallers ==
    \/ \E c \in Callers \ {""} : accepted_turn(c)
    \/ google_callback

\* two calls whose callers keep answering, in any interleaving of their turns
SpecTwoCallers == InitCalls /\ [][NextTwoCallers]_vars

\* the turn sent a create request that the calendar accepted
Created(t) ==
    /\ t.before # None
    /\ Mutations(t.calls) # <<>>
    /\ Mutations(t.calls)[1].op = "create_event"
    /\ t.api = "ok"

\* the slot of the turn's create request
SlotCreated(t) == [start |-> Mutations(t.calls)[1].start, end |-> Mutations(t.calls)[1].end]

\* the slots the turn's session held as offered when it was loaded
OfferedTo(t) ==
    IF OfferedSlots(The(t.before)) = None THEN {}
    ELSE {The(OfferedSlots(The(t.before)))[i] : i \in 1..Len(The(OfferedSlots(The(t.before))))}

\* C33: no double booking across calls: when two calls were offered the
\* same free slot and both confirm, at most one create request is sent for
\* that slot, under any interleaving of their turns: a create request for
\* an offered slot that the calendar accepted is never followed by a create
\* request of another call for the same slot.
C33_NoDoubleBooking ==
    [][(/\ Created(last) /\ SlotCreated(last) \in OfferedTo(last)
        /\ Created(last') /\ SlotCreated(last') \in OfferedTo(last')
        /\ last'.call # last.call)
           => SlotCreated(last') # SlotCreated(last)]_vars

====
